---- MODULE Spec2Model ----
(***************************************************************************)
(* o3storage: a node's storage engine (object files + parquet metadata),   *)
(* its S3 handlers, the replication gate kept in ClusterState, and the     *)
(* consensus manager's heartbeat handling.                                 *)
(*                                                                         *)
(* Time is counted in units of heartbeat_interval_ms.  Hashes are          *)
(* uninterpreted injective functions of the data; a hex prefix is the pair *)
(* (digest, length).  Option<T> is a sequence of length 0 or 1.            *)
(***************************************************************************)
EXTENDS Integers, Sequences, FiniteSets, TLC

\* ------------------------------------------------------------------ bounds
Nodes == {"n1", "n2"}
Self == "n1"
Buckets == {"b1", "b2"}
Keys == {<<1>>, <<1, 2>>}
Data == {<<7>>, <<8, 9>>}

MaxTime == 4
MaxStamp == 2
MaxVersions == 3
MaxApiVersions == 2
MaxBucketRows == 2
MaxTerm == 2
MaxObjectId == 3
MaxCalls == 2
MaxPartitions == 1
MaxConnections == 2
MaxTasks == 3
MaxTaskId == 5
MaxTaskCalls == 2
MaxStorageSize == 4
ReplicationFactor == 2
HeartbeatInterval == 1
ConsensusTimeout == 5

\* ----------------------------------------------------------------- helpers
Some(x) == <<x>>
None == <<>>

Max(a, b) == IF a >= b THEN a ELSE b

RECURSIVE LexLess(_, _)
LexLess(a, b) ==
    IF Len(a) = 0 THEN Len(b) > 0
    ELSE IF Len(b) = 0 THEN FALSE
    ELSE IF Head(a) # Head(b) THEN Head(a) < Head(b)
    ELSE LexLess(Tail(a), Tail(b))

starts_with(s, p) ==
    /\ Len(p) <= Len(s)
    /\ SubSeq(s, 1, Len(p)) = p

\* The characters of a key are numbers; these two are the codes of '%' and
\* '_', which a LIKE pattern reads as "any characters" and "any one
\* character".
Percent == 37
Underscore == 95

\* s LIKE pattern, without an escape character
RECURSIVE sql_like(_, _)
sql_like(s, pattern) ==
    IF Len(pattern) = 0 THEN Len(s) = 0
    ELSE IF Head(pattern) = Percent
         THEN \/ sql_like(s, Tail(pattern))
              \/ Len(s) > 0 /\ sql_like(Tail(s), pattern)
    ELSE IF Len(s) = 0 THEN FALSE
    ELSE /\ Head(pattern) = Underscore \/ Head(pattern) = Head(s)
         /\ sql_like(Tail(s), Tail(pattern))

RECURSIVE SortKeys(_)
SortKeys(S) ==
    IF S = {} THEN <<>>
    ELSE LET m == CHOOSE x \in S : \A y \in S \ {x} : LexLess(x, y)
         IN  <<m>> \o SortKeys(S \ {m})

RECURSIVE SortInts(_)
SortInts(S) ==
    IF S = {} THEN <<>>
    ELSE LET m == CHOOSE x \in S : \A y \in S : x <= y
         IN  <<m>> \o SortInts(S \ {m})

RECURSIVE SumSizes(_, _)
SumSizes(f, D) ==
    IF D = {} THEN 0
    ELSE LET i == CHOOSE x \in D : TRUE
         IN  Len(f[i]) + SumSizes(f, D \ {i})

InSeq(x, s) == \E i \in DOMAIN s : s[i] = x

Take(s, n) == SubSeq(s, 1, IF n < Len(s) THEN n ELSE Len(s))

RECURSIVE FilterSeq(_, _)
FilterSeq(s, keep) ==
    IF Len(s) = 0 THEN <<>>
    ELSE IF keep[1] THEN <<Head(s)>> \o FilterSeq(Tail(s), Tail(keep))
    ELSE FilterSeq(Tail(s), Tail(keep))

\* ------------------------------------------------------ storage/object.rs
Blake3Hex(data) == <<"blake3", data>>
Sha256Hex(data) == <<"sha256", data>>
EmptyString == <<>>
HexPrefix(hex, n) == <<"prefix", hex, n>>
Quoted(s) == <<"quoted", s>>

calculate_checksum(data) ==
    [sha256 |-> Sha256Hex(data), blake3 |-> Blake3Hex(data)]

generate_id(bucket, key, blake3_hash) ==
    <<bucket, key, HexPrefix(blake3_hash, 16)>>

Object_new(bucket, key, data, t, uuid) ==
    LET checksum == calculate_checksum(data)
    IN  [id       |-> generate_id(bucket, key, checksum.blake3),
         data     |-> data,
         metadata |-> [key        |-> key,
                       bucket     |-> bucket,
                       size       |-> Len(data),
                       created_at |-> t,
                       etag       |-> Quoted(HexPrefix(checksum.blake3, 32)),
                       version_id |-> uuid],
         checksum |-> checksum]

\* a variant that accepts every object
verify_integrity_skipped(object) == TRUE

verify_integrity(object) ==
    LET calculated == calculate_checksum(object.data)
    IN  /\ calculated.sha256 = object.checksum.sha256
        /\ calculated.blake3 = object.checksum.blake3

from_object(object) ==
    [id            |-> object.id,
     bucket        |-> object.metadata.bucket,
     key           |-> object.metadata.key,
     version_id    |-> object.metadata.version_id,
     size          |-> object.metadata.size,
     etag          |-> object.metadata.etag,
     last_modified |-> object.metadata.created_at]

\* results of the engine's methods: Ok(value) or Err(kind)
Ok(v) == [ok |-> TRUE, value |-> v, err |-> "none"]
Err(e) == [ok |-> FALSE, value |-> <<>>, err |-> e]

\* ---------------------------------------------------- storage/metadata.rs
\* The storage of one node: the rows of objects.parquet and buckets.parquet
\* in file order, the object files under objects/, and the two fields of
\* StorageStats that the engine reads back (the counters total_objects and
\* total_size_bytes are only ever written).
EmptyStorage ==
    [objects |-> <<>>,
     buckets |-> <<>>,
     files   |-> <<>>,
     stats   |-> [used_space_bytes      |-> 0,
                  available_space_bytes |-> MaxStorageSize]]

\* files is a function from object id to the bytes of the file
FileIds(st) == DOMAIN st.files

WriteFile(files, id, data) ==
    [i \in (DOMAIN files) \cup {id} |-> IF i = id THEN data ELSE files[i]]

append_to_parquet(rows, row) == Append(rows, row)

\* the one-row batch store_object builds for the object
object_record(object) ==
    [id               |-> object.id,
     bucket           |-> object.metadata.bucket,
     key              |-> object.metadata.key,
     version_id       |-> object.metadata.version_id,
     size             |-> object.metadata.size,
     etag             |-> object.metadata.etag,
     created_at       |-> object.metadata.created_at,
     checksum_sha256  |-> object.checksum.sha256,
     checksum_blake3  |-> object.checksum.blake3,
     is_delete_marker |-> FALSE]

store_object(st, object) ==
    [st EXCEPT !.objects = append_to_parquet(@, object_record(object))]

row_to_reference(row) ==
    [id            |-> row.id,
     bucket        |-> row.bucket,
     key           |-> row.key,
     version_id    |-> row.version_id,
     size          |-> row.size,
     etag          |-> row.etag,
     last_modified |-> row.created_at]

\* SELECT ... WHERE bucket, key [, version_id] AND is_delete_marker = false
\* [ORDER BY created_at DESC LIMIT 1]: the rows the query may return first.
\* Rows with equal created_at are ordered as the engine pleases.
metadata_candidates(st, bucket, key, version_id) ==
    LET live == {i \in DOMAIN st.objects :
                    /\ st.objects[i].bucket = bucket
                    /\ st.objects[i].key = key
                    /\ ~st.objects[i].is_delete_marker}
    IN  IF version_id # None
        THEN {i \in live : st.objects[i].version_id = version_id[1]}
        ELSE {i \in live : \A j \in live :
                    st.objects[j].created_at <= st.objects[i].created_at}

\* the set of values get_object_metadata may return
get_object_metadata(st, bucket, key, version_id) ==
    LET c == metadata_candidates(st, bucket, key, version_id)
    IN  IF c = {} THEN {Ok(None)}
        ELSE {Ok(Some(row_to_reference(st.objects[i]))) : i \in c}

\* ORDER BY created_at ASC: the orders in which the rows of a key may come
KeyRows(st, bucket, key) ==
    {i \in DOMAIN st.objects :
        st.objects[i].bucket = bucket /\ st.objects[i].key = key}

\* the sequences of the rows S in which created_at never decreases; rows of
\* equal created_at come in any order
RECURSIVE created_at_asc(_, _)
created_at_asc(st, S) ==
    IF S = {} THEN {<<>>}
    ELSE LET least == {i \in S : \A j \in S :
                          st.objects[i].created_at <= st.objects[j].created_at}
         IN  UNION {{<<i>> \o p : p \in created_at_asc(st, S \ {i})} :
                       i \in least}

row_to_version_info(row) ==
    [version_id       |-> row.version_id,
     object_id        |-> row.id,
     size             |-> row.size,
     etag             |-> row.etag,
     created_at       |-> row.created_at,
     is_delete_marker |-> row.is_delete_marker]

\* a variant that keeps the rows in a Vec, one entry for each row
build_versioned_object_vec(st, bucket, key, p) ==
    [bucket         |-> bucket,
     key            |-> key,
     versions       |-> [i \in 1..Len(p) |->
                           row_to_version_info(st.objects[p[i]])],
     latest_version |-> Some(st.objects[p[Len(p)]].version_id),
     is_deleted     |-> st.objects[p[Len(p)]].is_delete_marker]

\* VersionedObject built by inserting the rows, in the order p, into a
\* BTreeMap keyed by created_at: a later row with the same key replaces the
\* earlier one; latest_version and is_deleted are those of the last row.
build_versioned_object(st, bucket, key, p) ==
    LET n == Len(p)
        stamps == {st.objects[p[i]].created_at : i \in 1..n}
        last_at(t) == CHOOSE i \in 1..n :
                        /\ st.objects[p[i]].created_at = t
                        /\ \A j \in 1..n :
                              st.objects[p[j]].created_at = t => j <= i
    IN  [bucket         |-> bucket,
         key            |-> key,
         versions       |-> [t \in stamps |->
                               row_to_version_info(st.objects[p[last_at(t)]])],
         latest_version |-> Some(st.objects[p[n]].version_id),
         is_deleted     |-> st.objects[p[n]].is_delete_marker]

\* the set of values get_versioned_object may return
get_versioned_object(st, bucket, key) ==
    IF KeyRows(st, bucket, key) = {} THEN {Ok(None)}
    ELSE {Ok(Some(build_versioned_object(st, bucket, key, p))) :
             p \in created_at_asc(st, KeyRows(st, bucket, key))}

\* VersionedObject::list_versions: the values of the map in key order
list_versions(vo) ==
    LET order == SortInts(DOMAIN vo.versions)
    IN  [i \in 1..Len(order) |->
            [version_id       |-> vo.versions[order[i]].version_id,
             is_latest        |-> Some(vo.versions[order[i]].version_id)
                                    = vo.latest_version,
             last_modified    |-> vo.versions[order[i]].created_at,
             is_delete_marker |-> vo.versions[order[i]].is_delete_marker]]

\* SELECT DISTINCT bucket, key, FIRST_VALUE(..) OVER (PARTITION BY bucket, key
\* ORDER BY created_at DESC) FROM objects WHERE bucket = b [AND key LIKE 'p%']
\* AND is_delete_marker = false ORDER BY key LIMIT max_keys.
\* The WHERE clause drops the delete markers before the window is taken.
\* The prefix is pasted into the pattern as it is: key LIKE '<prefix>%'.
list_objects_rows(st, bucket, prefix) ==
    {i \in DOMAIN st.objects :
        /\ st.objects[i].bucket = bucket
        /\ (prefix # None =>
               sql_like(st.objects[i].key, prefix[1] \o <<Percent>>))
        /\ ~st.objects[i].is_delete_marker}

list_objects_keys(st, bucket, prefix, max_keys) ==
    Take(SortKeys({st.objects[i].key :
                      i \in list_objects_rows(st, bucket, prefix)}), max_keys)

\* the set of values list_objects may return: per listed key, one of the
\* rows of the key that pass the WHERE clause and have the greatest created_at
list_objects(st, bucket, prefix, max_keys) ==
    LET keys == list_objects_keys(st, bucket, prefix, max_keys)
        rows == list_objects_rows(st, bucket, prefix)
        first_value(k) ==
            {i \in rows :
                /\ st.objects[i].key = k
                /\ \A j \in rows : st.objects[j].key = k =>
                      st.objects[j].created_at <= st.objects[i].created_at}
    IN  {Ok([n \in 1..Len(keys) |-> row_to_reference(st.objects[f[n]])]) :
            f \in {g \in [1..Len(keys) -> rows] :
                      \A n \in 1..Len(keys) : g[n] \in first_value(keys[n])}}

\* delete_object: with a version id, objects.parquet is rewritten without the
\* rows of that version; without one, a delete marker row is appended.
delete_object(st, bucket, key, version_id, t, uuid) ==
    IF version_id # None
    THEN [st  |-> [st EXCEPT !.objects = FilterSeq(@,
                      [i \in DOMAIN st.objects |->
                          ~(/\ st.objects[i].bucket = bucket
                            /\ st.objects[i].key = key
                            /\ st.objects[i].version_id = version_id[1])])],
          res |-> Ok(TRUE)]
    ELSE [st  |-> [st EXCEPT !.objects = append_to_parquet(@,
                      [id               |-> <<bucket, key, <<"delete-marker">>>>,
                       bucket           |-> bucket,
                       key              |-> key,
                       version_id       |-> uuid,
                       size             |-> 0,
                       etag             |-> EmptyString,
                       created_at       |-> t,
                       checksum_sha256  |-> EmptyString,
                       checksum_blake3  |-> EmptyString,
                       is_delete_marker |-> TRUE])],
          res |-> Ok(TRUE)]

\* (the created_at column of buckets.parquet, which nothing reads, is left out)
create_bucket(st, name, region, t) ==
    [st  |-> [st EXCEPT !.buckets = append_to_parquet(@,
                [name   |-> name,
                 region |-> IF region = None THEN "us-east-1" ELSE region[1]])],
     res |-> Ok(<<>>)]

bucket_exists(st, name) ==
    Cardinality({i \in DOMAIN st.buckets : st.buckets[i].name = name}) > 0

\* ------------------------------------------------------ storage/engine.rs
\* a variant that writes no file for the object
store_object_data_skipped(st, object) == st

store_object_data(st, object) ==
    [st EXCEPT !.files = WriteFile(@, object.id, object.data)]

load_object_data(st, object_id) ==
    IF object_id \in FileIds(st) THEN Ok(st.files[object_id])
    ELSE Err("ObjectNotFound")

engine_put_object(st, bucket, key, data, t, uuid) ==
    LET st1 == IF ~bucket_exists(st, bucket)
               THEN create_bucket(st, bucket, None, t).st ELSE st
        object == Object_new(bucket, key, data, t, uuid)
        st2 == store_object(store_object_data(st1, object), object)
        used == st2.stats.used_space_bytes + object.metadata.size
    IN  IF ~verify_integrity(object)
        THEN [st |-> st1, res |-> Err("Corruption")]
        ELSE IF st1.stats.used_space_bytes + object.metadata.size > MaxStorageSize
        THEN [st |-> st1, res |-> Err("InsufficientSpace")]
        ELSE [st  |-> [st2 EXCEPT
                        !.stats.used_space_bytes = used,
                        !.stats.available_space_bytes =
                            Max(MaxStorageSize - used, 0)],
              res |-> Ok(from_object(object))]

\* the Object get_object rebuilds from the metadata row and the file: the
\* checksums are not read back, both fields are the empty string
loaded_object(obj_ref, data) ==
    [id       |-> obj_ref.id,
     data     |-> data,
     metadata |-> [key        |-> obj_ref.key,
                   bucket     |-> obj_ref.bucket,
                   size       |-> obj_ref.size,
                   created_at |-> obj_ref.last_modified,
                   etag       |-> obj_ref.etag,
                   version_id |-> obj_ref.version_id],
     checksum |-> [sha256 |-> EmptyString, blake3 |-> EmptyString]]

engine_get_object_of(st, metadata) ==
    IF metadata.value = None THEN Ok(None)
    ELSE LET data == load_object_data(st, metadata.value[1].id)
         IN  IF ~data.ok THEN data
             ELSE IF ~verify_integrity(loaded_object(metadata.value[1], data.value))
             THEN Err("Corruption")
             ELSE Ok(Some(loaded_object(metadata.value[1], data.value)))

\* the set of values get_object may return
engine_get_object(st, bucket, key, version_id) ==
    {engine_get_object_of(st, m) :
        m \in get_object_metadata(st, bucket, key, version_id)}

engine_delete_object(st, bucket, key, version_id, t, uuid) ==
    delete_object(st, bucket, key, version_id, t, uuid)

update_stats(st) ==
    LET total_size == SumSizes(st.files, DOMAIN st.files)
    IN  [st EXCEPT !.stats.used_space_bytes = total_size,
                   !.stats.available_space_bytes =
                       Max(MaxStorageSize - total_size, 0)]

\* ------------------------------------- src/node.rs, consensus/src/manager.rs
InitialClusterState ==
    [active_nodes |-> <<>>, total_replicas |-> 0, is_write_enabled |-> FALSE]

ActiveCount(cs) ==
    Cardinality({i \in DOMAIN cs.active_nodes :
                    cs.active_nodes[i].status = "Active"})

\* a variant that sets the gate and leaves total_replicas as it was
monitor_cluster_health_gate_only(cs, t) ==
    [cs EXCEPT !.is_write_enabled = ActiveCount(cs) >= ReplicationFactor]

\* one iteration of the loop of monitor_cluster_health at time t: the count
\* is taken first, then the entries not heard of for more than three
\* heartbeat intervals are dropped
monitor_cluster_health(cs, t) ==
    LET active_count == ActiveCount(cs)
    IN  [active_nodes     |-> FilterSeq(cs.active_nodes,
                                [i \in DOMAIN cs.active_nodes |->
                                    ~(t - cs.active_nodes[i].last_seen
                                        > HeartbeatInterval * 3)]),
         total_replicas   |-> active_count,
         is_write_enabled |-> active_count >= ReplicationFactor]

\* a variant that pushes an entry for every heartbeat
update_cluster_state_push_always(cs, from, t) ==
    [cs EXCEPT !.active_nodes = Append(@,
        [id |-> from, last_seen |-> t, status |-> "Active"])]

\* update_cluster_state_from_heartbeat at time t: the first entry with the
\* sender's id is refreshed, and an entry is pushed when there is none
update_cluster_state_from_heartbeat(cs, from, t) ==
    IF \E i \in DOMAIN cs.active_nodes : cs.active_nodes[i].id = from
    THEN LET i == CHOOSE j \in DOMAIN cs.active_nodes :
                    /\ cs.active_nodes[j].id = from
                    /\ \A l \in DOMAIN cs.active_nodes :
                          cs.active_nodes[l].id = from => j <= l
         IN  [cs EXCEPT !.active_nodes[i].last_seen = t,
                        !.active_nodes[i].status = "Active"]
    ELSE [cs EXCEPT !.active_nodes = Append(@,
            [id |-> from, last_seen |-> t, status |-> "Active"])]

\* --------------------------------------------------- consensus/src/raft.rs
\* a variant whose log holds one entry of term 1
RaftWithLog ==
    [state |-> "Follower", current_term |-> 0, voted_for |-> None,
     leader |-> None, election_timeout |-> None,
     log |-> <<[index |-> 1, term |-> 1]>>]

InitialRaft ==
    [state |-> "Follower", current_term |-> 0, voted_for |-> None,
     leader |-> None, election_timeout |-> None, log |-> <<>>]

\* reset_election_timeout: now + a random time in [T, 2T); instants past the
\* horizon MaxTime are not told apart
election_deadlines(t) ==
    {IF d > MaxTime THEN MaxTime + 1 ELSE d :
        d \in (t + ConsensusTimeout)..(t + 2 * ConsensusTimeout - 1)}

\* handle_heartbeat and handle_append_entries: the test on the term that
\* was read, and the writes that follow it (first a variant without the
\* test)
term_accepted_always(term, current_term) == TRUE

term_accepted(term, current_term) == term >= current_term

follow_leader(r, from, term, deadline) ==
    [r EXCEPT !.current_term = term,
              !.state = "Follower",
              !.leader = Some(from),
              !.election_timeout = Some(deadline)]

handle_heartbeat(r, from, term, deadline) ==
    IF term_accepted(term, r.current_term)
    THEN follow_leader(r, from, term, deadline)
    ELSE r

\* handle_vote_request holds the locks of current_term and voted_for from
\* its first line to its last
grant_vote(r, candidate_id, term) ==
    IF term > r.current_term THEN TRUE
    ELSE IF term = r.current_term
    THEN r.voted_for = None \/ r.voted_for = Some(candidate_id)
    ELSE FALSE

handle_vote_request(r, candidate_id, term, deadline) ==
    LET r1 == IF term > r.current_term
              THEN [r EXCEPT !.current_term = term, !.voted_for = None]
              ELSE r
    IN  IF grant_vote(r, candidate_id, term)
        THEN [r1 EXCEPT !.voted_for = Some(candidate_id),
                        !.election_timeout = Some(deadline)]
        ELSE r1

\* handle_vote_response: a Candidate logs a granted vote, nothing is
\* counted and no field is written
handle_vote_response(r, from, term, vote_granted) == r

\* a variant of the last step of start_election that also takes the lead
start_election_wins(r, self, deadline) ==
    [r EXCEPT !.voted_for = Some(self),
              !.election_timeout = Some(deadline),
              !.state = "Leader"]

\* start_election, one definition for each lock it takes
start_election_state(r) == [r EXCEPT !.state = "Candidate"]

start_election_term(r) == [r EXCEPT !.current_term = @ + 1]

start_election_vote(r, self, deadline) ==
    [r EXCEPT !.voted_for = Some(self),
              !.election_timeout = Some(deadline)]

\* the test of election_timeout_loop
election_due(r, t) ==
    /\ r.election_timeout # None
    /\ t >= r.election_timeout[1]
    /\ r.state # "Leader"

submit_replication_request(r) ==
    IF r.state # "Leader" THEN Err("NotLeader") ELSE Ok(TRUE)

request_replication(cs, r) ==
    IF cs.total_replicas < ReplicationFactor
    THEN Err("InsufficientReplicas")
    ELSE submit_replication_request(r)

\* ------------------------------------------------------ api/src/handlers.rs
NotCalled == Err("not_called")

\* max-keys of the query: unwrap_or(1000).min(1000)
ListLimit == 1000

api_max_keys(max_keys) ==
    IF max_keys = None THEN ListLimit
    ELSE IF max_keys[1] < ListLimit THEN max_keys[1] ELSE ListLimit

gate_open(cs) == cs.is_write_enabled

api_put_object(cs, r, st, bucket, key, data, t, uuid) ==
    IF ~gate_open(cs)
    THEN [st |-> st, status |-> "InsufficientReplicas",
          result |-> NotCalled, replication |-> NotCalled]
    ELSE LET e == engine_put_object(st, bucket, key, data, t, uuid)
         IN  IF ~e.res.ok
             THEN [st |-> e.st, status |-> "InternalError",
                   result |-> e.res, replication |-> NotCalled]
             ELSE [st |-> e.st, status |-> "OK",
                   result |-> e.res, replication |-> request_replication(cs, r)]

api_delete_object(cs, r, st, bucket, key, version_id, t, uuid) ==
    IF ~gate_open(cs)
    THEN [st |-> st, status |-> "InsufficientReplicas",
          result |-> NotCalled, replication |-> NotCalled]
    ELSE LET e == engine_delete_object(st, bucket, key, version_id, t, uuid)
         IN  IF ~e.res.value
             THEN [st |-> e.st, status |-> "NoSuchKey",
                   result |-> e.res, replication |-> NotCalled]
             ELSE [st |-> e.st, status |-> "NoContent",
                   result |-> e.res, replication |-> request_replication(cs, r)]

api_create_bucket(cs, st, bucket, t) ==
    IF ~gate_open(cs)
    THEN [st |-> st, status |-> "InsufficientReplicas",
          result |-> NotCalled, replication |-> NotCalled]
    ELSE LET e == create_bucket(st, bucket, None, t)
         IN  IF ~e.res.ok
             THEN [st |-> e.st, status |-> "InternalError",
                   result |-> e.res, replication |-> NotCalled]
             ELSE [st |-> e.st, status |-> "OK",
                   result |-> e.res, replication |-> NotCalled]

\* the status the handler answers for a value of the engine
api_get_status(result) ==
    IF ~result.ok THEN "InternalError"
    ELSE IF result.value = None THEN "NoSuchKey"
    ELSE "OK"

\* the sets of answers of the read handlers
api_get_object(st, bucket, key, version_id) ==
    {[status |-> api_get_status(g), result |-> g] :
        g \in engine_get_object(st, bucket, key, version_id)}

api_head_object(st, bucket, key, version_id) ==
    {[status |-> api_get_status(g), result |-> g] :
        g \in get_object_metadata(st, bucket, key, version_id)}

api_list_objects_v2(st, bucket, prefix, max_keys) ==
    IF ~bucket_exists(st, bucket)
    THEN {[status |-> "NoSuchBucket", result |-> NotCalled]}
    ELSE {[status |-> "OK", result |-> l] :
            l \in list_objects(st, bucket, prefix, api_max_keys(max_keys))}

\* ------------------------------------------------ storage/src/versioning.rs
\* versions is a BTreeMap: a function from created_at to VersionInfo
VersionedObject_new(bucket, key) ==
    [bucket |-> bucket, key |-> key, versions |-> <<>>,
     latest_version |-> None, is_deleted |-> FALSE]

BTreeInsert(map, k, v) ==
    [x \in (DOMAIN map) \cup {k} |-> IF x = k THEN v ELSE map[x]]

BTreeRemove(map, k) == [x \in (DOMAIN map) \ {k} |-> map[x]]

\* versions.values().last()
BTreeLast(map) ==
    IF DOMAIN map = {} THEN None
    ELSE Some(map[CHOOSE k \in DOMAIN map : \A x \in DOMAIN map : x <= k])

add_version(vo, object) ==
    [vo EXCEPT
        !.versions = BTreeInsert(@, object.metadata.created_at,
            [version_id       |-> object.metadata.version_id,
             object_id        |-> object.id,
             size             |-> object.metadata.size,
             etag             |-> object.metadata.etag,
             created_at       |-> object.metadata.created_at,
             is_delete_marker |-> FALSE]),
        !.latest_version = Some(object.metadata.version_id),
        !.is_deleted = FALSE]

add_delete_marker(vo, version_id, t) ==
    [vo EXCEPT
        !.versions = BTreeInsert(@, t,
            [version_id       |-> version_id,
             object_id        |-> EmptyString,
             size             |-> 0,
             etag             |-> EmptyString,
             created_at       |-> t,
             is_delete_marker |-> TRUE]),
        !.latest_version = Some(version_id),
        !.is_deleted = TRUE]

\* the first entry, in key order, that has the version id
delete_version(vo, version_id) ==
    LET found == {k \in DOMAIN vo.versions :
                     vo.versions[k].version_id = version_id}
    IN  IF found = {} THEN [vo |-> vo, res |-> FALSE]
        ELSE LET timestamp == CHOOSE k \in found : \A x \in found : k <= x
                 rest == BTreeRemove(vo.versions, timestamp)
                 last == BTreeLast(rest)
             IN  [vo  |-> IF Some(version_id) = vo.latest_version
                          THEN [vo EXCEPT
                                  !.versions = rest,
                                  !.latest_version =
                                      IF last = None THEN None
                                      ELSE Some(last[1].version_id),
                                  !.is_deleted =
                                      IF last = None THEN TRUE
                                      ELSE last[1].is_delete_marker]
                          ELSE [vo EXCEPT !.versions = rest],
                  res |-> TRUE]

\* ------------------------------------------------------- os/src/storage.rs
\* index maps "bucket:key" to the ObjectMetadata of the key; the file system
\* under it is a stub whose writes always succeed.  last is the call
\* answered last.
StorageManager_new ==
    [index |-> <<>>, next_object_id |-> 1,
     last |-> [op |-> "none", bucket |-> "none", res |-> Ok(<<>>)]]

\* ------------------------------------------- tests/simple_distributed_test.rs
MockNodes == {1, 2, 3}
MockKeys == {"k1", "k2"}
MockValues == {"v1", "v2"}
ReplicationFactors == {2, 3}

MockNode_new ==
    [status |-> "Active", storage |-> <<>>, network_partition |-> FALSE,
     replication_factor |-> 3]

\* the nodes of the slice that are not the origin, are not partitioned and
\* are Active
replication_targets(nodes, origin) ==
    {n \in DOMAIN nodes \ {origin} :
        ~nodes[n].network_partition /\ nodes[n].status = "Active"}

\* a variant that starts the count at 0 instead of 1
replicate_data_from_zero(nodes, origin, key, data) ==
    [nodes |-> [n \in DOMAIN nodes |->
                  IF n = origin \/ n \in replication_targets(nodes, origin)
                  THEN [nodes[n] EXCEPT !.storage = BTreeInsert(@, key, data)]
                  ELSE nodes[n]],
     res   |-> Cardinality(replication_targets(nodes, origin))
                  >= nodes[origin].replication_factor]

replicate_data(nodes, origin, key, data) ==
    LET successful_replicas == 1 + Cardinality(replication_targets(nodes, origin))
    IN  [nodes |-> [n \in DOMAIN nodes |->
                      IF n = origin \/ n \in replication_targets(nodes, origin)
                      THEN [nodes[n] EXCEPT
                              !.storage = BTreeInsert(@, key, data)]
                      ELSE nodes[n]],
         res   |-> successful_replicas >= nodes[origin].replication_factor]

simulate_network_partition(node, partitioned) ==
    [node EXCEPT !.network_partition = partitioned,
                 !.status = IF partitioned THEN "Failed" ELSE "Active"]

\* -------------------------------------- tests/distributed_operations_test.rs
DistNodes == {1, 2, 3}

\* MockNode::new, without the storage; cluster_state is the node's own
\* ClusterState, active_nodes the ids and statuses of its NodeInfo entries
DistNode_new ==
    [status |-> "Active", network_partition |-> FALSE,
     replication_factor |-> 3,
     cluster_state |-> [active_nodes |-> <<>>, total_replicas |-> 0,
                        is_write_enabled |-> FALSE, leader |-> None,
                        term |-> 0]]

\* ------------------------------------------------------------------- state
\* ---- network/src/communication.rs: the MessageHandler ----

\* MessageHandler::new: an empty connection table.  A Connection is known
\* by the channel made for it in add_connection (conn), which numbers the
\* connections in the order they were made; last_activity is kept as the
\* time since it, in heartbeat intervals, and times past consensus_timeout
\* are not told apart.  handlers holds the handle_connection tasks, by the
\* channel they read; sweep is the to_remove list of maintain_connections
\* between its read lock and its write lock; last is the operation that
\* ran last
MessageHandler_new ==
    [connections |-> [n \in {} |-> 0],
     handlers    |-> [c \in {} |-> 0],
     made        |-> 0,
     sweep       |-> None,
     last        |-> [op |-> "new", node |-> "none"]]

\* the channel of a connection is closed once its sender, which the table
\* entry holds, is gone: recv() then returns None
sender_dropped(h, c) ==
    \A n \in DOMAIN h.connections : h.connections[n].conn # c

\* HashMap::remove
MapRemove(m, k) == [x \in (DOMAIN m) \ {k} |-> m[x]]

\* HashMap::insert
MapInsert(m, k, v) == [x \in (DOMAIN m) \cup {k} |-> IF x = k THEN v ELSE m[x]]

\* ---- os/src/scheduler.rs: the cooperative Scheduler ----

\* Scheduler::new, with TASK_COUNTER of Task::new and, per task, the
\* number of times its function was called (up to MaxTaskCalls)
Scheduler_new ==
    [tasks |-> <<>>, current_task |-> 0, TASK_COUNTER |-> 0,
     running |-> FALSE, halted |-> FALSE]

VARIABLES
    store,          \* per node: the StorageEngine's files, tables and stats
    cluster_state,  \* per node: the shared ClusterState
    raft,           \* per node: the RaftNode's fields
    now,            \* the clock (Utc::now), in heartbeat intervals
    next_uuid,      \* the next value of Uuid::new_v4
    response,       \* the last answer given to a client
    put_task,       \* a put_object request between its awaits
    append_task,    \* per engine task: a put between the read and the
                    \* rewrite of objects.parquet
    raft_task,      \* per node: the position of the election task and of
                    \* the message task inside their methods, and the
                    \* last vote a Candidate logged as received
    votes,          \* history, per node: the last vote it wrote into
                    \* voted_for and the term it had when it wrote it
    manager,        \* per node, the ConsensusManager's tasks: the time to
                    \* the next tick of heartbeat_loop and the messages
                    \* in the channel that process_messages reads
    versioned,      \* a VersionedObject (storage/src/versioning.rs)
    os,             \* the StorageManager of the bare-metal build
                    \* (os/src/storage.rs) and the answer to its last call
    mock,           \* the nodes of the mock cluster of
                    \* tests/simple_distributed_test.rs, the last
                    \* replicate_data call and, per key, the value
                    \* replicated last
    net,            \* the MessageHandler (network/src/communication.rs)
    sched,          \* the Scheduler (os/src/scheduler.rs)
    dist            \* the nodes of the mock cluster of
                    \* tests/distributed_operations_test.rs, and which of
                    \* them have joined, and have updated their state or
                    \* sent heartbeats since the membership last changed,
                    \* and the number of partitions so far

\* the types the node does not use
standalone == <<versioned, os, mock, dist, net, sched>>

tasks == <<append_task, raft_task, votes, manager, standalone>>

\* the state of the node, without the clock and the uuids
node_vars == <<store, cluster_state, raft, response, put_task, append_task,
               raft_task, votes, manager>>

vars == <<store, cluster_state, raft, now, next_uuid, response, put_task,
          append_task, raft_task, votes, manager, standalone>>

NoResponse ==
    [node |-> "none", op |-> "none", bucket |-> "none", key |-> <<>>,
     status |-> "none", replication |-> "not_called",
     write_enabled |-> FALSE]

\* the answer a of a handler to the request op of a client of node, and
\* the value is_write_enabled had when the answer was given
Response(node, op, bucket, key, a) ==
    [node |-> node, op |-> op, bucket |-> bucket, key |-> key,
     status |-> a.status, replication |-> a.replication.err,
     write_enabled |-> cluster_state[node].is_write_enabled]

\* a variant of the answer of a read handler that checks is_write_enabled
\* as the write handlers do
ReadResponseGated(node, op, bucket, key, a) ==
    [node |-> node, op |-> op, bucket |-> bucket, key |-> key,
     status |-> IF cluster_state[node].is_write_enabled THEN a.status
                ELSE "InsufficientReplicas",
     replication |-> "not_called",
     write_enabled |-> cluster_state[node].is_write_enabled]

\* the answer a of get_object, head_object or list_objects_v2
ReadResponse(node, op, bucket, key, a) ==
    [node |-> node, op |-> op, bucket |-> bucket, key |-> key,
     status |-> a.status, replication |-> "not_called",
     write_enabled |-> cluster_state[node].is_write_enabled]

IdleTask ==
    [pc |-> "idle", node |-> "none", bucket |-> "none", key |-> <<>>,
     data |-> <<>>, version_id |-> None]

\* the engine tasks that may run put_object at the same time
EngineTasks == {1, 2}

IdleAppend == [pc |-> "idle", object |-> None, existing |-> <<>>]

\* the election task is outside start_election, the message task is
\* between two messages
\* RaftNode::run has not been called, the message task is between two
\* messages, no vote response has been handled
IdleRaftTask ==
    [election |-> "off",
     started  |-> 0,
     handler  |-> [pc |-> "idle", term |-> 0, from |-> "none"],
     received |-> None,
     stale    |-> None]

Init ==
    /\ store = [n \in Nodes |-> EmptyStorage]
    /\ cluster_state = [n \in Nodes |-> InitialClusterState]
    /\ raft = [n \in Nodes |-> InitialRaft]
    /\ now = 0
    /\ next_uuid = 1
    /\ response = NoResponse
    /\ put_task = IdleTask
    /\ append_task = [k \in EngineTasks |-> IdleAppend]
    /\ raft_task = [n \in Nodes |-> IdleRaftTask]
    /\ votes = [n \in Nodes |-> None]
    /\ manager = [n \in Nodes |-> [heartbeat_in |-> 0, channel |-> <<>>]]
    /\ versioned = VersionedObject_new("b1", <<1>>)
    /\ os = StorageManager_new
    /\ mock = [nodes  |-> [n \in MockNodes |-> MockNode_new],
               last   |-> [calls |-> 0, origin |-> 0, key |-> "none",
                           data |-> "none", res |-> FALSE],
               latest |-> <<>>]
    /\ dist = [nodes   |-> [n \in DistNodes |-> DistNode_new],
               joined  |-> {},
               partitions |-> 0,
               updated |-> {},
               beat    |-> {}]
    /\ net = MessageHandler_new
    /\ sched = Scheduler_new

\* inputs
PrefixInputs == {None, Some(<<1>>), Some(<<1, 2>>), Some(<<Underscore>>)}
MaxKeysInputs == {None, Some(1)}
\* the version ids a client may name: the ids given out so far, and 0, an
\* id that no version ever had
VersionInputs == {None} \cup {Some(v) : v \in 0..(next_uuid - 1)}

CanMint == next_uuid <= MaxVersions
CanMintApi == next_uuid <= MaxApiVersions
CanAddBucket(n) == Len(store[n].buckets) < MaxBucketRows

\* ------------------------------------------------------------ environment
Tick ==
    /\ now < MaxTime
    /\ now' = now + 1
    /\ UNCHANGED <<store, cluster_state, raft, next_uuid, response, put_task, tasks>>

\* ------------------------------------------ the storage engine, called alone
EnginePutObject(n, bucket, key, data) ==
    /\ CanMint
    /\ bucket_exists(store[n], bucket) \/ CanAddBucket(n)
    /\ store' = [store EXCEPT ![n] =
          engine_put_object(@, bucket, key, data, now, next_uuid).st]
    /\ next_uuid' = next_uuid + 1
    /\ UNCHANGED <<cluster_state, raft, now, response, put_task, tasks>>

EngineDeleteObject(n, bucket, key, version_id) ==
    /\ version_id \in VersionInputs
    /\ version_id = None => CanMint
    /\ store' = [store EXCEPT ![n] =
          engine_delete_object(@, bucket, key, version_id, now, next_uuid).st]
    /\ next_uuid' = IF version_id = None THEN next_uuid + 1 ELSE next_uuid
    /\ UNCHANGED <<cluster_state, raft, now, response, put_task, tasks>>

EngineCreateBucket(n, bucket) ==
    /\ CanAddBucket(n)
    /\ store' = [store EXCEPT ![n] = create_bucket(@, bucket, None, now).st]
    /\ UNCHANGED <<cluster_state, raft, now, next_uuid, response, put_task, tasks>>

\* StorageEngine::start: the periodic update_stats
EngineUpdateStats(n) ==
    /\ store' = [store EXCEPT ![n] = update_stats(@)]
    /\ UNCHANGED <<cluster_state, raft, now, next_uuid, response, put_task, tasks>>

NextEngine ==
    \/ (now < MaxStamp /\ Tick)
    \/ \E b \in Buckets, k \in Keys, d \in Data : EnginePutObject(Self, b, k, d)
    \/ \E b \in Buckets, k \in Keys, v \in VersionInputs :
          EngineDeleteObject(Self, b, k, v)
    \/ \E b \in Buckets : EngineCreateBucket(Self, b)
    \/ EngineUpdateStats(Self)

SpecEngine == Init /\ [][NextEngine]_vars

\* ------------------------------------------------- one node of the cluster
\* the requests of the clients of the API
ApiBuckets == {"b1"}
ApiKeys == {<<1>>}
ApiData == {<<7>>}

\* ConsensusManager::handle_message of a Heartbeat; heartbeat_loop sends
\* them with term 0
HandleHeartbeat(n, from) ==
    /\ \E deadline \in election_deadlines(now) :
          raft' = [raft EXCEPT ![n] = handle_heartbeat(@, from, 0, deadline)]
    /\ cluster_state' = [cluster_state EXCEPT ![n] =
          update_cluster_state_from_heartbeat(@, from, now)]
    /\ UNCHANGED <<store, now, next_uuid, response, put_task, tasks>>

\* one iteration of Node::monitor_cluster_health
MonitorClusterHealth(n) ==
    /\ cluster_state' = [cluster_state EXCEPT ![n] =
          monitor_cluster_health(@, now)]
    /\ UNCHANGED <<store, raft, now, next_uuid, response, put_task, tasks>>

ApiPutObject(n, bucket, key, data) ==
    /\ gate_open(cluster_state[n]) =>
          CanMintApi /\ (bucket_exists(store[n], bucket) \/ CanAddBucket(n))
    /\ LET a == api_put_object(cluster_state[n], raft[n], store[n],
                               bucket, key, data, now, next_uuid)
       IN  /\ store' = [store EXCEPT ![n] = a.st]
           /\ response' = Response(n, "put_object", bucket, key, a)
    /\ next_uuid' = IF gate_open(cluster_state[n])
                    THEN next_uuid + 1 ELSE next_uuid
    /\ UNCHANGED <<cluster_state, raft, now, put_task, tasks>>

ApiDeleteObject(n, bucket, key, version_id) ==
    /\ version_id \in VersionInputs
    /\ (gate_open(cluster_state[n]) /\ version_id = None) => CanMintApi
    /\ LET a == api_delete_object(cluster_state[n], raft[n], store[n],
                                  bucket, key, version_id, now, next_uuid)
       IN  /\ store' = [store EXCEPT ![n] = a.st]
           /\ response' = Response(n, "delete_object", bucket, key, a)
    /\ next_uuid' = IF gate_open(cluster_state[n]) /\ version_id = None
                    THEN next_uuid + 1 ELSE next_uuid
    /\ UNCHANGED <<cluster_state, raft, now, put_task, tasks>>

ApiCreateBucket(n, bucket) ==
    /\ gate_open(cluster_state[n]) => CanAddBucket(n)
    /\ LET a == api_create_bucket(cluster_state[n], store[n], bucket, now)
       IN  /\ store' = [store EXCEPT ![n] = a.st]
           /\ response' = Response(n, "create_bucket", bucket, <<>>, a)
    /\ UNCHANGED <<cluster_state, raft, now, next_uuid, put_task, tasks>>

Next ==
    \/ Tick
    \/ \E from \in Nodes : HandleHeartbeat(Self, from)
    \/ MonitorClusterHealth(Self)
    \/ \E b \in ApiBuckets, k \in ApiKeys, d \in ApiData :
          ApiPutObject(Self, b, k, d)
    \/ \E b \in ApiBuckets, k \in ApiKeys, v \in VersionInputs :
          ApiDeleteObject(Self, b, k, v)
    \/ \E b \in ApiBuckets : ApiCreateBucket(Self, b)

Spec == Init /\ [][Next]_vars


\* ------------------------------------- put_object, one await after another
\* handlers.rs 163-167: the check of is_write_enabled under the read lock
PutGate(n, bucket, key, data) ==
    /\ put_task.pc = "idle"
    /\ IF ~gate_open(cluster_state[n])
       THEN /\ response' = Response(n, "put_object", bucket, key,
                    [status |-> "InsufficientReplicas",
                     replication |-> NotCalled])
            /\ UNCHANGED put_task
       ELSE /\ put_task' = [pc |-> "store", node |-> n, bucket |-> bucket,
                            key |-> key, data |-> data, version_id |-> None]
            /\ UNCHANGED response
    /\ UNCHANGED <<store, cluster_state, raft, now, next_uuid, tasks>>

\* handlers.rs 183-185: storage_engine.put_object
PutStore(n) ==
    /\ put_task.pc = "store"
    /\ put_task.node = n
    /\ CanMintApi
    /\ bucket_exists(store[n], put_task.bucket) \/ CanAddBucket(n)
    /\ LET e == engine_put_object(store[n], put_task.bucket, put_task.key,
                                  put_task.data, now, next_uuid)
       IN  /\ store' = [store EXCEPT ![n] = e.st]
           /\ IF e.res.ok
              THEN /\ put_task' = [put_task EXCEPT
                            !.pc = "replicate",
                            !.version_id = Some(e.res.value.version_id)]
                   /\ UNCHANGED response
              ELSE /\ put_task' = IdleTask
                   /\ response' = Response(n, "put_object", put_task.bucket,
                            put_task.key,
                            [status |-> "InternalError",
                             replication |-> NotCalled])
    /\ next_uuid' = next_uuid + 1
    /\ UNCHANGED <<cluster_state, raft, now, tasks>>

\* handlers.rs 197-213: request_replication, whose error is logged, then 200
PutReplicate(n) ==
    /\ put_task.pc = "replicate"
    /\ put_task.node = n
    /\ response' = Response(n, "put_object", put_task.bucket, put_task.key,
            [status |-> "OK",
             replication |-> request_replication(cluster_state[n], raft[n])])
    /\ put_task' = IdleTask
    /\ UNCHANGED <<store, cluster_state, raft, now, next_uuid, tasks>>

NextPut ==
    \/ Tick
    \/ \E from \in Nodes : HandleHeartbeat(Self, from)
    \/ MonitorClusterHealth(Self)
    \/ \E b \in ApiBuckets, k \in ApiKeys, d \in ApiData :
          PutGate(Self, b, k, d)
    \/ PutStore(Self)
    \/ PutReplicate(Self)

SpecPut == Init /\ [][NextPut]_vars

\* ------------------------------------------------------ the nodes together
NextCluster ==
    \/ \E n \in Nodes, from \in Nodes : HandleHeartbeat(n, from)
    \/ \E n \in Nodes : MonitorClusterHealth(n)
    \/ \E n \in Nodes, b \in ApiBuckets, k \in ApiKeys, d \in ApiData :
          ApiPutObject(n, b, k, d)

SpecCluster == Init /\ [][NextCluster]_vars

\* --------------------------------------- a version handed to the store again
\* MetadataStore::store_object called with the Object of row i once more
object_of_row(st, i) ==
    [id |-> st.objects[i].id,
     data |-> st.files[st.objects[i].id],
     metadata |->
        [key |-> st.objects[i].key, bucket |-> st.objects[i].bucket,
         size |-> st.objects[i].size, etag |-> st.objects[i].etag,
         created_at |-> st.objects[i].created_at,
         version_id |-> st.objects[i].version_id],
     checksum |->
        [sha256 |-> st.objects[i].checksum_sha256,
         blake3 |-> st.objects[i].checksum_blake3]]

StoreObjectAgain(n, i) ==
    /\ i \in DOMAIN store[n].objects
    /\ ~store[n].objects[i].is_delete_marker
    /\ store[n].objects[i].id \in FileIds(store[n])
    /\ Len(store[n].objects) <= MaxVersions
    /\ store' = [store EXCEPT ![n] = store_object(@, object_of_row(@, i))]
    /\ UNCHANGED <<cluster_state, raft, now, next_uuid, response, put_task, tasks>>

NextReplay ==
    \/ (now < MaxStamp /\ Tick)
    \/ \E k \in Keys, d \in Data : EnginePutObject(Self, "b1", k, d)
    \/ \E k \in Keys, v \in VersionInputs :
          EngineDeleteObject(Self, "b1", k, v)
    \/ \E i \in 1..MaxVersions : StoreObjectAgain(Self, i)

SpecReplay == Init /\ [][NextReplay]_vars

\* ------------------------------------------------- two puts at one engine
\* put_object of task k, which is not inside another put_object (it has
\* served none yet, or its last one has returned), up to the await inside
\* append_to_parquet: the
\* bucket is looked up, the object built, the space checked, the blob
\* written and the existing batches of objects.parquet collected
AppendRead(k, bucket, key, data) ==
    /\ CanMint
    /\ append_task[k].pc # "read"
    /\ LET st1 == IF ~bucket_exists(store[Self], bucket)
                  THEN create_bucket(store[Self], bucket, None, now).st
                  ELSE store[Self]
           object == Object_new(bucket, key, data, now, next_uuid)
       IN  IF \/ ~verify_integrity(object)
              \/ st1.stats.used_space_bytes + object.metadata.size
                     > MaxStorageSize
           THEN /\ store' = [store EXCEPT ![Self] = st1]
                /\ append_task' = [append_task EXCEPT ![k] =
                       [pc |-> "failed", object |-> Some(object),
                        existing |-> <<>>]]
           ELSE /\ store' = [store EXCEPT ![Self] =
                                store_object_data(st1, object)]
                /\ append_task' = [append_task EXCEPT ![k] =
                       [pc |-> "read", object |-> Some(object),
                        existing |-> st1.objects]]
    /\ next_uuid' = next_uuid + 1
    /\ UNCHANGED <<cluster_state, raft, now, response, put_task,
                   raft_task, votes, manager, standalone>>

\* the rest of put_object of task k: File::create and the writer put the
\* batches collected before plus the new one in place of the file, the
\* stats are raised and Ok is returned
AppendWrite(k) ==
    /\ append_task[k].pc = "read"
    /\ LET object == append_task[k].object[1]
           used == store[Self].stats.used_space_bytes + object.metadata.size
       IN  store' = [store EXCEPT ![Self] =
              [@ EXCEPT
                 !.objects = append_to_parquet(append_task[k].existing,
                                               object_record(object)),
                 !.stats.used_space_bytes = used,
                 !.stats.available_space_bytes =
                     Max(MaxStorageSize - used, 0)]]
    /\ append_task' = [append_task EXCEPT ![k].pc = "done"]
    /\ UNCHANGED <<cluster_state, raft, now, next_uuid, response, put_task,
                   raft_task, votes, manager, standalone>>

NextAppend ==
    \/ \E k \in EngineTasks, b \in Buckets, key \in Keys, d \in Data :
          AppendRead(k, b, key, d)
    \/ \E k \in EngineTasks : AppendWrite(k)

SpecAppend == Init /\ [][NextAppend]_vars

\* ------------------------------------------------ blobs altered on disk
\* the bytes an altered object file may hold
AlteredData == Data \cup {<<6>>, <<>>}

\* something outside the engine rewrites the file of a stored object
CorruptBlob(n, id, data) ==
    /\ id \in FileIds(store[n])
    /\ data # store[n].files[id]
    /\ store' = [store EXCEPT ![n].files = WriteFile(@, id, data)]
    /\ UNCHANGED <<cluster_state, raft, now, next_uuid, response, put_task,
                   tasks>>

NextCorrupt ==
    \/ (now < MaxStamp /\ Tick)
    \/ \E k \in Keys, d \in Data : EnginePutObject(Self, "b1", k, d)
    \/ \E id \in FileIds(store[Self]), d \in AlteredData :
          CorruptBlob(Self, id, d)

SpecCorrupt == Init /\ [][NextCorrupt]_vars

\* ------------------------------------------------- the RaftNode of a node
\* The election task (election_timeout_loop, start_election) and the message
\* task (the handlers, one message at a time) of a RaftNode run side by
\* side; each step below is what one of them does under the locks it holds.
\* The messages are inputs: any peer may send any term. Every node runs
\* its election task, the messages are delivered to the nodes of Receivers.
RaftTerms == 0..MaxTerm
LogIndexes == 0..1
Peers(n) == Nodes \ {n}
Receivers == {Self}

\* the clock of the election timers: it runs one step past MaxTime, where
\* every deadline that election_deadlines clamped is due
RaftTick ==
    /\ now <= MaxTime
    /\ now' = now + 1
    /\ UNCHANGED <<store, cluster_state, raft, next_uuid, response, put_task,
                   tasks>>

\* RaftNode::run: the first reset_election_timeout
RaftRun(n) ==
    /\ raft_task[n].election = "off"
    /\ \E deadline \in election_deadlines(now) :
          raft' = [raft EXCEPT ![n].election_timeout = Some(deadline)]
    /\ raft_task' = [raft_task EXCEPT ![n].election = "idle"]
    /\ UNCHANGED <<store, cluster_state, now, next_uuid, response, put_task,
                   append_task, votes, manager, standalone>>

\* election_timeout_loop finds the timer due and start_election writes
\* the state
ElectionTimeout(n) ==
    /\ raft_task[n].election = "idle"
    /\ election_due(raft[n], now)
    /\ raft[n].current_term < MaxTerm
    /\ raft' = [raft EXCEPT ![n] = start_election_state(@)]
    /\ raft_task' = [raft_task EXCEPT ![n].election = "state",
                                      ![n].started = raft[n].current_term]
    /\ UNCHANGED <<store, cluster_state, now, next_uuid, response, put_task,
                   append_task, votes, manager, standalone>>

\* start_election adds one to current_term
ElectionTerm(n) ==
    /\ raft_task[n].election = "state"
    /\ raft' = [raft EXCEPT ![n] = start_election_term(@)]
    /\ raft_task' = [raft_task EXCEPT ![n].election = "term"]
    /\ UNCHANGED <<store, cluster_state, now, next_uuid, response, put_task,
                   append_task, votes, manager, standalone>>

\* start_election votes for the node itself and resets the timer
ElectionVote(n) ==
    /\ raft_task[n].election = "term"
    /\ \E deadline \in election_deadlines(now) :
          raft' = [raft EXCEPT ![n] = start_election_vote(@, n, deadline)]
    /\ votes' = [votes EXCEPT ![n] =
          Some([term |-> raft[n].current_term, candidate |-> n])]
    /\ raft_task' = [raft_task EXCEPT ![n].election = "idle",
                                      ![n].started = 0]
    /\ UNCHANGED <<store, cluster_state, now, next_uuid, response, put_task,
                   append_task, manager, standalone>>

\* handle_heartbeat (pc "heartbeat") and handle_append_entries (pc
\* "append_entries") read current_term and compare; the history keeps in
\* stale the last message whose term was below current_term
MessageRead(n, pc, from, term) ==
    /\ raft_task[n].handler.pc = "idle"
    /\ raft_task' = [raft_task EXCEPT
          ![n].handler = IF term_accepted(term, raft[n].current_term)
                         THEN [pc |-> pc, term |-> term, from |-> from]
                         ELSE @,
          ![n].stale = IF term < raft[n].current_term
                       THEN Some([kind |-> pc, term |-> term])
                       ELSE @]
    /\ UNCHANGED <<store, cluster_state, raft, now, next_uuid, response,
                   put_task, append_task, votes, manager, standalone>>

\* and then write the term, the state, the leader and the timer
MessageWrite(n, pc) ==
    /\ raft_task[n].handler.pc = pc
    /\ \E deadline \in election_deadlines(now) :
          raft' = [raft EXCEPT ![n] =
             follow_leader(@, raft_task[n].handler.from,
                           raft_task[n].handler.term, deadline)]
    /\ raft_task' = [raft_task EXCEPT ![n].handler =
                         [pc |-> "idle", term |-> 0, from |-> "none"]]
    /\ UNCHANGED <<store, cluster_state, now, next_uuid, response, put_task,
                   append_task, votes, manager, standalone>>

HandleVoteRequest(n, candidate_id, term, last_log_index, last_log_term) ==
    /\ raft_task[n].handler.pc = "idle"
    /\ \E deadline \in election_deadlines(now) :
          raft' = [raft EXCEPT ![n] =
             handle_vote_request(@, candidate_id, term, deadline)]
    /\ votes' = IF grant_vote(raft[n], candidate_id, term)
                THEN [votes EXCEPT ![n] =
                        Some([term |-> term, candidate |-> candidate_id])]
                ELSE votes
    /\ raft_task' = IF term < raft[n].current_term
                    THEN [raft_task EXCEPT ![n].stale =
                            Some([kind |-> "vote_request", term |-> term])]
                    ELSE raft_task
    /\ UNCHANGED <<store, cluster_state, now, next_uuid, response, put_task,
                   append_task, manager, standalone>>

\* the history keeps the vote a Candidate logs as received
HandleVoteResponse(n, from, term, vote_granted) ==
    /\ raft_task[n].handler.pc = "idle"
    /\ raft' = [raft EXCEPT ![n] =
          handle_vote_response(@, from, term, vote_granted)]
    /\ raft_task' = IF raft[n].state = "Candidate" /\ vote_granted
                    THEN [raft_task EXCEPT ![n].received =
                            Some([term |-> term, from |-> from])]
                    ELSE raft_task
    /\ UNCHANGED <<store, cluster_state, now, next_uuid, response, put_task,
                   append_task, votes, manager, standalone>>

NextRaft ==
    \/ RaftTick
    \/ \E n \in Nodes : RaftRun(n)
    \/ \E n \in Nodes : ElectionTimeout(n)
    \/ \E n \in Nodes : ElectionTerm(n)
    \/ \E n \in Nodes : ElectionVote(n)
    \/ \E n \in Receivers : \E from \in Peers(n), term \in RaftTerms :
          MessageRead(n, "heartbeat", from, term)
    \/ \E n \in Receivers : MessageWrite(n, "heartbeat")
    \/ \E n \in Receivers : \E from \in Peers(n), term \in RaftTerms :
          MessageRead(n, "append_entries", from, term)
    \/ \E n \in Receivers : MessageWrite(n, "append_entries")
    \/ \E n \in Receivers : \E c \in Peers(n), term \in RaftTerms,
          i \in LogIndexes, t \in RaftTerms :
          HandleVoteRequest(n, c, term, i, t)
    \/ \E n \in Receivers : \E from \in Peers(n), term \in RaftTerms,
          g \in BOOLEAN :
          HandleVoteResponse(n, from, term, g)

SpecRaft == Init /\ [][NextRaft]_vars

\* --------------------------------------------------------- read handlers
ReadOps == {"get_object", "head_object", "list_objects_v2"}

ApiGetObject(n, bucket, key, version_id) ==
    /\ version_id \in VersionInputs
    /\ \E a \in api_get_object(store[n], bucket, key, version_id) :
          response' = ReadResponse(n, "get_object", bucket, key, a)
    /\ UNCHANGED <<store, cluster_state, raft, now, next_uuid, put_task,
                   tasks>>

ApiHeadObject(n, bucket, key, version_id) ==
    /\ version_id \in VersionInputs
    /\ \E a \in api_head_object(store[n], bucket, key, version_id) :
          response' = ReadResponse(n, "head_object", bucket, key, a)
    /\ UNCHANGED <<store, cluster_state, raft, now, next_uuid, put_task,
                   tasks>>

ApiListObjectsV2(n, bucket, prefix, max_keys) ==
    /\ \E a \in api_list_objects_v2(store[n], bucket, prefix, max_keys) :
          response' = ReadResponse(n, "list_objects_v2", bucket, <<>>, a)
    /\ UNCHANGED <<store, cluster_state, raft, now, next_uuid, put_task,
                   tasks>>

NextRead ==
    \/ Tick
    \/ \E from \in Nodes : HandleHeartbeat(Self, from)
    \/ MonitorClusterHealth(Self)
    \/ \E b \in ApiBuckets, k \in ApiKeys, d \in ApiData :
          ApiPutObject(Self, b, k, d)
    \/ \E b \in ApiBuckets, k \in ApiKeys, v \in VersionInputs :
          ApiGetObject(Self, b, k, v)
    \/ \E b \in ApiBuckets, k \in ApiKeys, v \in VersionInputs :
          ApiHeadObject(Self, b, k, v)
    \/ \E b \in ApiBuckets, p \in PrefixInputs, m \in MaxKeysInputs :
          ApiListObjectsV2(Self, b, p, m)

SpecRead == Init /\ [][NextRead]_vars

\* ----------------------------------- the tasks of ConsensusManager::start
\* ConsensusManager::start spawns heartbeat_loop, RaftNode::run and
\* process_messages.  Here the clock stays at 0 and the passing of one
\* heartbeat interval moves every deadline and every last_seen one step
\* down instead, so that time has no end; ages of more than three
\* intervals are not told apart.
\* heartbeat_loop: the interval fires and the node's own Heartbeat, with
\* term 0, goes into the channel of the node
HeartbeatLoop(n) ==
    /\ manager[n].heartbeat_in = 0
    /\ manager' = [manager EXCEPT
          ![n].heartbeat_in = HeartbeatInterval,
          ![n].channel = Append(@, [from |-> n, term |-> 0])]
    /\ UNCHANGED <<store, cluster_state, raft, now, next_uuid, response,
                   put_task, append_task, raft_task, votes, standalone>>

\* process_messages takes the next message: handle_message calls
\* handle_heartbeat and then update_cluster_state_from_heartbeat
ProcessMessages(n) ==
    /\ Len(manager[n].channel) > 0
    /\ LET heartbeat == Head(manager[n].channel)
       IN  /\ \E deadline \in election_deadlines(now) :
                 raft' = [raft EXCEPT ![n] =
                    handle_heartbeat(@, heartbeat.from, heartbeat.term,
                                     deadline)]
           /\ cluster_state' = [cluster_state EXCEPT ![n] =
                 update_cluster_state_from_heartbeat(@, heartbeat.from, now)]
    /\ manager' = [manager EXCEPT ![n].channel = Tail(@)]
    /\ UNCHANGED <<store, now, next_uuid, response, put_task, append_task,
                   raft_task, votes, standalone>>

\* One heartbeat interval passes on a started node.  The tasks are faster
\* than the clock: no message waits in the channel, the heartbeat is not
\* due, and election_timeout_loop, which looks every 100 ms, has no
\* election to start or to finish.
ManagerTick(n) ==
    /\ raft_task[n].election = "idle"
    /\ manager[n].heartbeat_in > 0
    /\ Len(manager[n].channel) = 0
    /\ ~(election_due(raft[n], now) /\ raft[n].current_term < MaxTerm)
    /\ manager' = [manager EXCEPT ![n].heartbeat_in = @ - 1]
    /\ raft' = [raft EXCEPT ![n].election_timeout =
          IF @ # None /\ @[1] > now THEN Some(@[1] - 1) ELSE @]
    /\ cluster_state' = [cluster_state EXCEPT ![n].active_nodes =
          [i \in DOMAIN @ |->
              [@[i] EXCEPT !.last_seen =
                  IF now - @ > 3 * HeartbeatInterval THEN @ ELSE @ - 1]]]
    /\ UNCHANGED <<store, now, next_uuid, response, put_task, append_task,
                   raft_task, votes, standalone>>

\* The node is alone: its own heartbeats are the only heartbeats.  A peer
\* may ask for a vote in a term the node has not reached, below the last
\* term, so that the node can still start an election afterwards.
NextManager ==
    \/ RaftRun(Self)
    \/ HeartbeatLoop(Self)
    \/ ProcessMessages(Self)
    \/ ManagerTick(Self)
    \/ MonitorClusterHealth(Self)
    \/ ElectionTimeout(Self)
    \/ ElectionTerm(Self)
    \/ ElectionVote(Self)
    \/ \E c \in Peers(Self), term \in RaftTerms, i \in LogIndexes,
          t \in RaftTerms :
          /\ term > raft[Self].current_term
          /\ term < MaxTerm
          /\ HandleVoteRequest(Self, c, term, i, t)

\* every task of the node runs when it can; the peers need not send
\* anything
ManagerFair ==
    /\ WF_vars(RaftRun(Self))
    /\ WF_vars(HeartbeatLoop(Self))
    /\ WF_vars(ProcessMessages(Self))
    /\ WF_vars(ManagerTick(Self))
    /\ WF_vars(ElectionTimeout(Self))
    /\ WF_vars(ElectionTerm(Self))
    /\ WF_vars(ElectionVote(Self))

SpecManager == Init /\ [][NextManager]_vars /\ ManagerFair

\* ------------------------------------- the operations of a VersionedObject
\* add_version of an Object that Object::new built at some time up to now
VoAddVersion(created_at, data) ==
    /\ CanMint
    /\ created_at \in 0..now
    /\ versioned' = add_version(versioned,
          Object_new(versioned.bucket, versioned.key, data, created_at,
                     next_uuid))
    /\ next_uuid' = next_uuid + 1
    /\ UNCHANGED <<node_vars, now, os, mock, dist, net, sched>>

VoAddDeleteMarker ==
    /\ CanMint
    /\ versioned' = add_delete_marker(versioned, next_uuid, now)
    /\ next_uuid' = next_uuid + 1
    /\ UNCHANGED <<node_vars, now, os, mock, dist, net, sched>>

VoDeleteVersion(version_id) ==
    /\ version_id \in 0..(next_uuid - 1)
    /\ versioned' = delete_version(versioned, version_id).vo
    /\ UNCHANGED <<node_vars, now, next_uuid, os, mock, dist, net, sched>>

VoTick ==
    /\ now < MaxStamp
    /\ now' = now + 1
    /\ UNCHANGED <<node_vars, next_uuid, standalone>>

NextVersioned ==
    \/ VoTick
    \/ \E t \in 0..MaxStamp, d \in Data : VoAddVersion(t, d)
    \/ VoAddDeleteMarker
    \/ \E v \in 0..MaxVersions : VoDeleteVersion(v)

SpecVersioned == Init /\ [][NextVersioned]_vars

\* ------------------------------------- the operations of a StorageManager
OsPutObject(bucket, key, data) ==
    /\ os.next_object_id <= MaxObjectId
    /\ LET metadata == [id         |-> os.next_object_id,
                        bucket     |-> bucket,
                        key        |-> key,
                        size       |-> Len(data),
                        is_deleted |-> FALSE]
       IN  os' = [index          |-> BTreeInsert(os.index, <<bucket, key>>,
                                                  metadata),
                  next_object_id |-> os.next_object_id + 1,
                  last           |-> [op |-> "put_object", bucket |-> bucket,
                                      res |-> Ok(metadata)]]
    /\ UNCHANGED <<node_vars, now, next_uuid, versioned, mock, dist, net, sched>>

OsDeleteObject(bucket, key) ==
    /\ os' = IF <<bucket, key>> \in DOMAIN os.index
             THEN [os EXCEPT
                     !.index[<<bucket, key>>].is_deleted = TRUE,
                     !.last = [op |-> "delete_object", bucket |-> bucket,
                               res |-> Ok(<<>>)]]
             ELSE [os EXCEPT
                     !.last = [op |-> "delete_object", bucket |-> bucket,
                               res |-> Err("ObjectNotFound")]]
    /\ UNCHANGED <<node_vars, now, next_uuid, versioned, mock, dist, net, sched>>

\* marks every object of the bucket deleted, then save_index()
OsDeleteBucket(name) ==
    /\ os' = [os EXCEPT
                !.index = [x \in DOMAIN os.index |->
                             IF os.index[x].bucket = name
                             THEN [os.index[x] EXCEPT !.is_deleted = TRUE]
                             ELSE os.index[x]],
                !.last = [op |-> "delete_bucket", bucket |-> name,
                          res |-> Ok(<<>>)]]
    /\ UNCHANGED <<node_vars, now, next_uuid, versioned, mock, dist, net, sched>>

NextOs ==
    \/ \E b \in Buckets, k \in Keys, d \in Data : OsPutObject(b, k, d)
    \/ \E b \in Buckets, k \in Keys : OsDeleteObject(b, k)
    \/ \E b \in Buckets : OsDeleteBucket(b)

SpecOs == Init /\ [][NextOs]_vars

\* ----------------------------------------- the operations of the mock cluster
MockReplicateData(origin, key, data) ==
    /\ mock.last.calls < MaxCalls
    /\ LET r == replicate_data(mock.nodes, origin, key, data)
       IN  mock' = [nodes  |-> r.nodes,
                    last   |-> [calls |-> mock.last.calls + 1,
                                origin |-> origin, key |-> key,
                                data |-> data, res |-> r.res],
                    latest |-> BTreeInsert(mock.latest, key, data)]
    /\ UNCHANGED <<node_vars, now, next_uuid, versioned, os, dist, net, sched>>

MockPartition(n, partitioned) ==
    /\ mock' = [mock EXCEPT
                  !.nodes[n] = simulate_network_partition(@, partitioned)]
    /\ UNCHANGED <<node_vars, now, next_uuid, versioned, os, dist, net, sched>>

\* nodes[0].replication_factor = 2
MockSetFactor(n, factor) ==
    /\ mock' = [mock EXCEPT !.nodes[n].replication_factor = factor]
    /\ UNCHANGED <<node_vars, now, next_uuid, versioned, os, dist, net, sched>>

NextMock ==
    \/ \E n \in MockNodes, k \in MockKeys, d \in MockValues :
          MockReplicateData(n, k, d)
    \/ \E n \in MockNodes, p \in BOOLEAN : MockPartition(n, p)
    \/ \E n \in MockNodes, f \in ReplicationFactors : MockSetFactor(n, f)

SpecMock == Init /\ [][NextMock]_vars

\* --------------------- the operations of the mock of distributed_operations
\* create_test_cluster lets the nodes join one after the other in index
\* order, each with the whole cluster, the node's own slot included, as
\* cluster_nodes
DistJoinCluster(self) ==
    /\ self = Cardinality(dist.joined) + 1
    /\ dist' = [nodes |-> [n \in DistNodes |->
                   LET node == dist.nodes[n]
                       pushed == IF node.network_partition THEN node
                                 ELSE [node EXCEPT
                                         !.cluster_state.active_nodes =
                                             Append(@, [id |-> self,
                                                        status |-> "Joining"])]
                   IN  IF n = self THEN [pushed EXCEPT !.status = "Active"]
                       ELSE pushed],
                joined  |-> dist.joined \cup {self},
                partitions |-> dist.partitions,
                updated |-> {},
                beat    |-> {}]
    /\ UNCHANGED <<node_vars, now, next_uuid, versioned, os, mock, net, sched>>

\* the tests call the other operations on a cluster that
\* create_test_cluster has returned
DistHeartbeat(self) ==
    /\ dist.joined = DistNodes
    /\ dist' = [dist EXCEPT
          !.nodes = IF dist.nodes[self].network_partition THEN @
                    ELSE [n \in DistNodes |->
                      LET node == dist.nodes[n]
                          list == node.cluster_state.active_nodes
                          found == {i \in DOMAIN list : list[i].id = self}
                      IN  IF n = self \/ node.network_partition
                             \/ found = {}
                          THEN node
                          ELSE LET first == CHOOSE i \in found :
                                               \A j \in found : i <= j
                               IN  [node EXCEPT
                                      !.cluster_state.active_nodes[first]
                                          .status = dist.nodes[self].status]],
          !.beat = @ \cup {self}]
    /\ UNCHANGED <<node_vars, now, next_uuid, versioned, os, mock, net, sched>>

DistUpdateClusterState(self) ==
    /\ dist.joined = DistNodes
    /\ LET state == dist.nodes[self].cluster_state
           active_count ==
               Cardinality({i \in DOMAIN state.active_nodes :
                               state.active_nodes[i].status = "Active"})
           elect == state.leader = None /\ active_count > 0
       IN  dist' = [dist EXCEPT
              !.nodes[self].cluster_state =
                  [state EXCEPT
                     !.total_replicas = active_count,
                     !.is_write_enabled =
                         active_count >= dist.nodes[self].replication_factor,
                     !.leader = IF elect THEN Some(self) ELSE @,
                     !.term = IF elect THEN @ + 1 ELSE @],
              !.updated = @ \cup {self}]
    /\ UNCHANGED <<node_vars, now, next_uuid, versioned, os, mock, net, sched>>

\* simulate_network_partition: the status is set to Failed and never back
DistPartition(self, partitioned) ==
    /\ dist.joined = DistNodes
    /\ partitioned => dist.partitions < MaxPartitions
    /\ dist' = [dist EXCEPT
          !.nodes[self].network_partition = partitioned,
          !.nodes[self].status = IF partitioned THEN "Failed" ELSE @,
          !.partitions = IF partitioned THEN @ + 1 ELSE @,
          !.updated = IF partitioned = dist.nodes[self].network_partition
                      THEN @ ELSE {},
          !.beat = IF partitioned = dist.nodes[self].network_partition
                   THEN @ ELSE {}]
    /\ UNCHANGED <<node_vars, now, next_uuid, versioned, os, mock, net, sched>>

NextDist ==
    \/ \E n \in DistNodes : DistJoinCluster(n)
    \/ \E n \in DistNodes : DistHeartbeat(n)
    \/ \E n \in DistNodes : DistUpdateClusterState(n)
    \/ \E n \in DistNodes, p \in BOOLEAN : DistPartition(n, p)

SpecDist == Init /\ [][NextDist]_vars

\* ================================================================== claims
\* ------------------------------------------------------------------ C1
\* C1: put_object, delete_object and create_bucket are refused with
\* InsufficientReplicas whenever the number of Active nodes of the
\* ClusterState is below replication_factor when the request is handled.
C1_GateRefuses ==
    [][ActiveCount(cluster_state[Self]) < ReplicationFactor =>
          /\ \A b \in ApiBuckets, k \in ApiKeys, d \in ApiData :
                ApiPutObject(Self, b, k, d)
                    => response'.status = "InsufficientReplicas"
          /\ \A b \in ApiBuckets, k \in ApiKeys, v \in VersionInputs :
                ApiDeleteObject(Self, b, k, v)
                    => response'.status = "InsufficientReplicas"
          /\ \A b \in ApiBuckets :
                ApiCreateBucket(Self, b)
                    => response'.status = "InsufficientReplicas"]_vars

\* ------------------------------------------------------------------ C2
HasVersion(st, version_id) ==
    \E i \in DOMAIN st.objects : Some(st.objects[i].version_id) = version_id

\* C2: a put rejected by the gate, at the check of the handler or in
\* request_replication, is answered InsufficientReplicas and leaves nothing
\* written: the store and the listing of the bucket are as before.
C2_RejectedPutWritesNothing ==
    [][/\ \A b \in ApiBuckets, k \in ApiKeys, d \in ApiData :
             (PutGate(Self, b, k, d) /\ ~gate_open(cluster_state[Self]))
                 => /\ response'.status = "InsufficientReplicas"
                    /\ store' = store
       /\ ( /\ PutReplicate(Self)
            /\ request_replication(cluster_state[Self], raft[Self])
                  = Err("InsufficientReplicas") )
             => /\ response'.status = "InsufficientReplicas"
                /\ ~HasVersion(store'[Self], put_task.version_id)
                /\ ~InSeq(put_task.key,
                          list_objects_keys(store'[Self], put_task.bucket,
                                            None, ListLimit))]_vars

\* ------------------------------------------------------------------ C3
ActiveIds(cs) ==
    {cs.active_nodes[i].id : i \in
        {j \in DOMAIN cs.active_nodes : cs.active_nodes[j].status = "Active"}}

\* nothing is under way: no request is between two of its awaits (the nodes
\* exchange no message about objects)
Quiescent == put_task.pc = "idle"

\* C3: once a put has succeeded on a node that counts at least
\* replication_factor Active nodes and the cluster is quiescent, every Active
\* node answers the same versions and the same bytes for the key.
C3_ReplicasAgree ==
    \A n \in Nodes :
        ( /\ Quiescent
          /\ response.node = n
          /\ response.op = "put_object"
          /\ response.status = "OK"
          /\ ActiveCount(cluster_state[n]) >= ReplicationFactor )
        => \A m \in ActiveIds(cluster_state[n]) :
              /\ get_versioned_object(store[m], response.bucket, response.key)
                    = get_versioned_object(store[n], response.bucket,
                                           response.key)
              /\ engine_get_object(store[m], response.bucket, response.key,
                                   None)
                    = engine_get_object(store[n], response.bucket,
                                        response.key, None)

\* ------------------------------------------------------------------ C4
\* C4: a successful put_object(b,k,X) followed by get_object(b,k) returns an
\* object whose data is X and whose etag is the first 32 hex characters of
\* BLAKE3(X).
C4_PutThenGet ==
    [][\A b \in Buckets, k \in Keys, d \in Data :
          ( /\ EnginePutObject(Self, b, k, d)
            /\ engine_put_object(store[Self], b, k, d, now, next_uuid).res.ok )
          => \A g \in engine_get_object(store'[Self], b, k, None) :
                /\ g.ok
                /\ g.value # None
                /\ g.value[1].data = d
                /\ g.value[1].metadata.etag = HexPrefix(Blake3Hex(d), 32)]_vars

\* ------------------------------------------------------------------ C5
LastRowIsPutOf(st, b, k) ==
    /\ Len(st.objects) > 0
    /\ st.objects[Len(st.objects)].bucket = b
    /\ st.objects[Len(st.objects)].key = k
    /\ ~st.objects[Len(st.objects)].is_delete_marker

Listed(vo) == {vo.versions[t].version_id : t \in DOMAIN vo.versions}

\* C5: after put(b,k,X) and then delete(b,k) without a version id, get(b,k)
\* answers NoSuchKey, and the version listing of k holds both the put version
\* and the delete marker.
C5_DeleteThenGet ==
    [][\A b \in Buckets, k \in Keys :
          ( /\ LastRowIsPutOf(store[Self], b, k)
            /\ EngineDeleteObject(Self, b, k, None) )
          => /\ \A g \in api_get_object(store'[Self], b, k, None) :
                    g.status = "NoSuchKey"
             /\ \A v \in get_versioned_object(store'[Self], b, k) :
                    /\ v.value # None
                    /\ store[Self].objects[Len(store[Self].objects)].version_id
                          \in Listed(v.value[1])
                    /\ next_uuid \in Listed(v.value[1])]_vars

\* ------------------------------------------------------------------ C6
\* the key has a delete marker later than every one of its other versions
LatestIsDeleteMarker(st, b, k) ==
    \E i \in KeyRows(st, b, k) :
        /\ st.objects[i].is_delete_marker
        /\ \A j \in KeyRows(st, b, k) \ {i} :
              st.objects[j].created_at < st.objects[i].created_at

\* C6: list_objects(b) never lists a key whose latest version is a delete
\* marker.
C6_ListHidesDeleted ==
    \A b \in Buckets, prefix \in PrefixInputs, m \in MaxKeysInputs, k \in Keys :
        InSeq(k, list_objects_keys(store[Self], b, prefix, api_max_keys(m)))
            => ~LatestIsDeleteMarker(store[Self], b, k)

\* ------------------------------------------------------------------ C7
VersionLess(a, b) ==
    \/ a.last_modified < b.last_modified
    \/ a.last_modified = b.last_modified /\ a.version_id < b.version_id

\* C7: the version listing of a key holds every version stored for it, in
\* strictly increasing (timestamp, version_id) order; two versions with the
\* same timestamp are both listed.
C7_VersionListing ==
    \A b \in Buckets, k \in Keys :
        \A v \in get_versioned_object(store[Self], b, k) :
            v.value # None =>
                LET l == list_versions(v.value[1])
                IN  /\ \A i \in KeyRows(store[Self], b, k) :
                          \E n \in DOMAIN l :
                              l[n].version_id = store[Self].objects[i].version_id
                    /\ \A n, m \in DOMAIN l : n < m => VersionLess(l[n], l[m])

\* ------------------------------------------------------------------ C8
\* C8: put_object into a bucket that does not exist fails with NoSuchBucket
\* and does not create the bucket.
C8_PutNeedsBucket ==
    [][\A b \in Buckets, k \in Keys, d \in Data :
          ( /\ ~bucket_exists(store[Self], b)
            /\ EnginePutObject(Self, b, k, d) )
          => /\ engine_put_object(store[Self], b, k, d, now, next_uuid).res
                    = Err("NoSuchBucket")
             /\ ~bucket_exists(store'[Self], b)]_vars

\* ------------------------------------------------------------------ C9
\* C9: create_bucket(b) for a name that already exists fails with
\* AlreadyExists and adds nothing.
C9_CreateBucketTwice ==
    [][\A b \in Buckets :
          ( /\ bucket_exists(store[Self], b)
            /\ EngineCreateBucket(Self, b) )
          => /\ create_bucket(store[Self], b, None, now).res
                    = Err("AlreadyExists")
             /\ store' = store]_vars

\* ------------------------------------------------------------------ C10
\* C10: storing a version whose (bucket, key, version_id) is already in the
\* store is accepted and leaves the versions of every key as they were.
C10_StoreAgainKeepsVersions ==
    [][\A i \in 1..MaxVersions :
          StoreObjectAgain(Self, i)
              => \A b \in Buckets, k \in Keys :
                    get_versioned_object(store'[Self], b, k)
                        = get_versioned_object(store[Self], b, k)]_vars

\* a version has been stored twice
C10_Witness ==
    \E i, j \in DOMAIN store[Self].objects :
        /\ i < j
        /\ store[Self].objects[i] = store[Self].objects[j]

\* ------------------------------------------------------------------ C11
\* C11: when two put_object calls that ran at the same time have both
\* returned success, the version records of both are rows of the objects
\* table.
Recorded(st, object) ==
    \E i \in DOMAIN st.objects :
        st.objects[i] = object_record(object)

C11_BothRecordsPresent ==
    (\A k \in EngineTasks : append_task[k].pc = "done") =>
        \A k \in EngineTasks :
            Recorded(store[Self], append_task[k].object[1])

\* ------------------------------------------------------------------ C12
\* C12: in every reachable state every row of the objects table that is
\* not a delete marker has its blob among the object files.
C12_VersionsHaveBlobs ==
    \A n \in Nodes : \A i \in DOMAIN store[n].objects :
        ~store[n].objects[i].is_delete_marker =>
            store[n].objects[i].id \in FileIds(store[n])

\* a key with a version and a delete marker written after it
C12_Witness ==
    \E i, j \in DOMAIN store[Self].objects :
        /\ i < j
        /\ ~store[Self].objects[i].is_delete_marker
        /\ store[Self].objects[j].is_delete_marker
        /\ store[Self].objects[j].key = store[Self].objects[i].key
        /\ store[Self].objects[j].bucket = store[Self].objects[i].bucket

\* ------------------------------------------------------------------ C13
\* C13: get_object never returns data whose digest is not the digest
\* recorded for the version when it was put; when the file of the version
\* holds other bytes than the ones put, get_object fails with Corruption.
RecordedDigest(st, version_id) ==
    {st.objects[i].checksum_blake3 :
        i \in {j \in DOMAIN st.objects : st.objects[j].version_id = version_id}}

Altered(st, obj_ref) ==
    /\ obj_ref.id \in FileIds(st)
    /\ calculate_checksum(st.files[obj_ref.id]).blake3
           \notin RecordedDigest(st, obj_ref.version_id)

C13_GetDetectsCorruption ==
    \A b \in Buckets, k \in Keys, v \in VersionInputs :
        \A m \in get_object_metadata(store[Self], b, k, v) :
            LET r == engine_get_object_of(store[Self], m)
            IN  /\ (r.ok /\ r.value # None) =>
                      calculate_checksum(r.value[1].data).blake3 \in
                          RecordedDigest(store[Self],
                                         r.value[1].metadata.version_id)
                /\ (m.value # None /\ Altered(store[Self], m.value[1])) =>
                      r = Err("Corruption")

\* the file of the latest version of a key has been altered and get_object
\* of the key answers Corruption
C13_Witness ==
    \E k \in Keys :
        \E m \in get_object_metadata(store[Self], "b1", k, None) :
            /\ m.value # None
            /\ Altered(store[Self], m.value[1])
            /\ engine_get_object_of(store[Self], m) = Err("Corruption")

\* ------------------------------------------------------------------ C14
\* C14: no two nodes are in Leader state with the same current_term.
C14_OneLeaderPerTerm ==
    \A n, m \in Nodes :
        (n # m /\ raft[n].state = "Leader" /\ raft[m].state = "Leader") =>
            raft[n].current_term # raft[m].current_term

\* two nodes have finished start_election and are Candidates of one term
C14_Witness ==
    \E n, m \in Nodes :
        /\ n # m
        /\ raft[n].state = "Candidate" /\ raft[m].state = "Candidate"
        /\ raft_task[n].election = "idle" /\ raft_task[m].election = "idle"
        /\ raft[n].voted_for = Some(n) /\ raft[m].voted_for = Some(m)
        /\ raft[n].current_term = raft[m].current_term
        /\ raft[n].current_term >= 1

\* ------------------------------------------------------------------ C15
\* C15: within one term a node writes a vote for one candidate only: no
\* step replaces the vote of a node by another vote of the same term,
\* whichever way the steps of start_election and handle_vote_request
\* interleave.
C15_OneVotePerTerm ==
    [][\A n \in Nodes :
          (votes[n] # None /\ votes'[n][1].term = votes[n][1].term) =>
              votes'[n][1].candidate = votes[n][1].candidate]_vars

\* ------------------------------------------------------------------ C16
\* C16: handle_vote_request grants a vote only when the candidate's
\* last_log_term is greater than the last term of the local log, or the
\* terms are equal and its last_log_index is at least the local last index.
LastLogTerm(log) == IF log = <<>> THEN 0 ELSE log[Len(log)].term
LastLogIndex(log) == IF log = <<>> THEN 0 ELSE log[Len(log)].index

UpToDate(last_log_index, last_log_term, log) ==
    \/ last_log_term > LastLogTerm(log)
    \/ /\ last_log_term = LastLogTerm(log)
       /\ last_log_index >= LastLogIndex(log)

C17_MajorityMakesLeader ==
    [][\A n \in Receivers : \A from \in Peers(n), term \in RaftTerms :
          (/\ HandleVoteResponse(n, from, term, TRUE)
           /\ raft[n].state = "Candidate"
           /\ raft_task[n].election = "idle"
           /\ raft[n].voted_for = Some(n)
           /\ term = raft[n].current_term
           /\ 2 * Cardinality({n, from}) > Cardinality(Nodes)) =>
              raft'[n].state = "Leader"]_vars

\* ------------------------------------------------------------------ C18
\* C18: no step of handle_heartbeat, handle_append_entries,
\* handle_vote_request or start_election lowers the current_term of a node.
C18_TermNeverDecreases ==
    [][\A n \in Nodes :
          raft'[n].current_term >= raft[n].current_term]_vars

\* ------------------------------------------------------------------ C19
\* C19: a put_object or delete_object handled by a node whose RaftNode is
\* not in Leader state is not answered with a success status.
C19_NonLeaderNeverAcks ==
    [][raft[Self].state # "Leader" =>
          /\ \A b \in ApiBuckets, k \in ApiKeys, d \in ApiData :
                ApiPutObject(Self, b, k, d) => response'.status # "OK"
          /\ \A b \in ApiBuckets, k \in ApiKeys, v \in VersionInputs :
                ApiDeleteObject(Self, b, k, v) =>
                    response'.status # "NoContent"]_vars

\* ------------------------------------------------------------------ C20
\* C20: after an iteration of the health monitor, total_replicas counts no
\* peer whose last heartbeat is more than 3 heartbeat intervals old.
Heard(cs, t) ==
    {i \in DOMAIN cs.active_nodes :
        /\ cs.active_nodes[i].status = "Active"
        /\ ~(t - cs.active_nodes[i].last_seen > HeartbeatInterval * 3)}

C20_SilentPeerNotCounted ==
    [][MonitorClusterHealth(Self) =>
          cluster_state'[Self].total_replicas =
              Cardinality(Heard(cluster_state[Self], now))]_vars

\* ------------------------------------------------------------------ C21
\* C21: get_object, head_object and list_objects_v2 are never answered
\* InsufficientReplicas, whatever is_write_enabled and the number of
\* Active nodes are when they are handled.
C21_ReadsNotGated ==
    response.op \in ReadOps => response.status # "InsufficientReplicas"

\* head_object of a stored object was answered OK while writes were
\* disabled
C21_Witness ==
    /\ response.op = "head_object"
    /\ response.status = "OK"
    /\ ~response.write_enabled

\* ------------------------------------------------------------------ C22
\* C22: a delete_object that names a version id the key does not have
\* changes nothing in the store and is answered NoSuchKey.
KeyHasVersion(st, bucket, key, version_id) ==
    \E i \in DOMAIN st.objects :
        /\ st.objects[i].bucket = bucket
        /\ st.objects[i].key = key
        /\ st.objects[i].version_id = version_id

C22_DeleteMissingVersion ==
    [][\A b \in ApiBuckets, k \in ApiKeys, v \in VersionInputs :
          (/\ v # None
           /\ gate_open(cluster_state[Self])
           /\ ~KeyHasVersion(store[Self], b, k, v[1])
           /\ ApiDeleteObject(Self, b, k, v)) =>
              /\ response'.status = "NoSuchKey"
              /\ store' = store]_vars

\* ------------------------------------------------------------------ C23
\* C23: used_space_bytes of the storage engine never exceeds
\* max_storage_size, also when put_object calls run at the same time.
C23_UsedSpaceWithinCapacity ==
    store[Self].stats.used_space_bytes <= MaxStorageSize

\* ------------------------------------------------------------------ C24
\* C24: latest_version of a VersionedObject is the version id of the entry
\* with the greatest timestamp, and None when there is no entry.
C24_LatestIsMaxTimestamp ==
    versioned.latest_version =
        (IF BTreeLast(versioned.versions) = None THEN None
         ELSE Some(BTreeLast(versioned.versions)[1].version_id))

\* ------------------------------------------------------------------ C25
\* C25: list_objects(b, prefix, max_keys) returns at most min(max_keys, 1000)
\* keys, each of bucket b and starting with prefix, in ascending
\* lexicographic order.
C25_ListBoundedPrefixedSorted ==
    \A b \in Buckets, prefix \in PrefixInputs, m \in MaxKeysInputs :
        \A l \in list_objects(store[Self], b, prefix, api_max_keys(m)) :
            /\ l.ok
            /\ Len(l.value) <= ListLimit
            /\ m # None => Len(l.value) <= m[1]
            /\ \A i \in DOMAIN l.value :
                  /\ l.value[i].bucket = b
                  /\ prefix # None => starts_with(l.value[i].key, prefix[1])
                  /\ i > 1 => LexLess(l.value[i - 1].key, l.value[i].key)

\* ------------------------------------------------------------------ C26
\* the bucket holds an object that is not marked deleted
HasLiveObject(sm, name) ==
    \E x \in DOMAIN sm.index :
        sm.index[x].bucket = name /\ ~sm.index[x].is_deleted

\* C26: delete_bucket(b) on a bucket that still holds a non-deleted object
\* fails with NotEmpty and removes or marks nothing.
C26_DeleteBucketNotEmpty ==
    [][(/\ os'.last.op = "delete_bucket"
        /\ HasLiveObject(os, os'.last.bucket))
       => (/\ os'.last.res = Err("NotEmpty")
           /\ os'.index = os.index)]_vars

\* ------------------------------------------------------------------ C27
\* C27: a replication call returns true exactly if the number of nodes that
\* stored the value, the origin and every active peer that is not
\* partitioned, is at least replication_factor; those nodes hold the value
\* afterwards and no other node's storage changes.
C27_TrueIffEnoughStored ==
    [][mock'.last.calls # mock.last.calls =>
        LET origin == mock'.last.origin
            stored == {origin} \cup
                      {n \in MockNodes \ {origin} :
                          /\ mock.nodes[n].status = "Active"
                          /\ ~mock.nodes[n].network_partition}
        IN  /\ mock'.last.res <=>
                  Cardinality(stored) >= mock.nodes[origin].replication_factor
            /\ \A n \in stored :
                  /\ mock'.last.key \in DOMAIN mock'.nodes[n].storage
                  /\ mock'.nodes[n].storage[mock'.last.key] = mock'.last.data
            /\ \A n \in MockNodes \ stored :
                  mock'.nodes[n].storage = mock.nodes[n].storage]_vars

\* a call was refused while a peer was partitioned
C27_Witness ==
    /\ mock.last.calls > 0
    /\ ~mock.last.res
    /\ \E n \in MockNodes \ {mock.last.origin} :
          /\ mock.nodes[n].network_partition
          /\ mock.last.key \notin DOMAIN mock.nodes[n].storage
    /\ mock.nodes[mock.last.origin].storage[mock.last.key] = mock.last.data

\* ------------------------------------------------------------------ C28
\* C28: after any sequence of replications, failures and recoveries, every
\* active node that holds a key holds the value replicated last for it.
C28_ActiveReplicasAgree ==
    \A n \in MockNodes : \A k \in DOMAIN mock.nodes[n].storage :
        mock.nodes[n].status = "Active" =>
            mock.nodes[n].storage[k] = mock.latest[k]

\* ------------------------------------------------------------------ C29
\* is_leader(): the node's own state names the node as leader
DistLeaders ==
    {n \in DistNodes : dist.nodes[n].cluster_state.leader = Some(n)}

Partitioned == {n \in DistNodes : dist.nodes[n].network_partition}

\* C29: once every node has joined and run update_cluster_state, exactly
\* one node is leader; once a node is partitioned away and the remaining
\* nodes have run update_cluster_state again, one of them is leader.
C29_OneLeader ==
    dist.joined = DistNodes =>
        /\ (Partitioned = {} /\ dist.updated = DistNodes)
              => Cardinality(DistLeaders) = 1
        /\ (Partitioned # {} /\ Partitioned # DistNodes
               /\ DistNodes \ Partitioned \subseteq dist.updated)
              => DistLeaders \ Partitioned # {}

\* ------------------------------------------------------------------ C30
\* C30: after the cluster is created and every node has sent a heartbeat,
\* each node's active_nodes list holds every other node once and not the
\* node itself.
C30_ActiveNodesAreTheOthers ==
    (dist.joined = DistNodes /\ Partitioned = {} /\ dist.beat = DistNodes) =>
        \A n \in DistNodes :
            LET list == dist.nodes[n].cluster_state.active_nodes
            IN  /\ \A m \in DistNodes \ {n} :
                      Cardinality({i \in DOMAIN list : list[i].id = m}) = 1
                /\ \A i \in DOMAIN list : list[i].id # n

\* ------------------------------------------------------------------ C31
\* C31: when the election timeout expires on a Follower or Candidate, the
\* node becomes Candidate, adds exactly 1 to current_term and votes for
\* itself; a Leader never starts an election.  started is the term the
\* node had when its timer was found due.
C31_ElectionMakesCandidate ==
    [][\A n \in Nodes :
        /\ (raft_task[n].election = "idle" /\ raft_task'[n].election = "state")
              => raft[n].state # "Leader"
        /\ (raft_task[n].election = "term" /\ raft_task'[n].election = "idle")
              => /\ raft'[n].state = "Candidate"
                 /\ raft'[n].current_term = raft_task[n].started + 1
                 /\ raft'[n].voted_for = Some(n)]_vars

\* ------------------------------------------------------------------ C32
\* C32: a non-leader node that receives no message from a leader reaches
\* its election timeout and starts an election, also while the heartbeat
\* loop of its own ConsensusManager is running.
C32_SilenceLeadsToElection ==
    <>(raft_task[Self].election = "state")

\* ------------------------------------------------------------------ C33
\* C33: a Heartbeat, AppendEntries or VoteRequest whose term is lower than
\* current_term leaves current_term, state, voted_for, the leader and the
\* election timeout unchanged; the handler is left with nothing to write
\* and the stale VoteRequest is not granted.
C33_StaleMessageIgnored ==
    [][\A n \in Nodes :
        raft_task'[n].stale # raft_task[n].stale =>
            /\ raft_task'[n].stale[1].term < raft[n].current_term
            /\ raft'[n] = raft[n]
            /\ raft_task'[n].handler = raft_task[n].handler
            /\ votes'[n] = votes[n]]_vars

\* a node that has voted has handled a VoteRequest of a term below its own
C33_Witness ==
    /\ raft_task[Self].stale # None
    /\ raft_task[Self].stale[1].kind = "vote_request"
    /\ raft[Self].current_term > raft_task[Self].stale[1].term
    /\ raft[Self].voted_for # None

\* ------------------------------------------------------------------ C34
\* the gate agrees with the count
GateMatchesReplicas ==
    \A n \in Nodes :
        cluster_state[n].is_write_enabled
            <=> cluster_state[n].total_replicas >= ReplicationFactor

\* C34: is_write_enabled is true exactly when total_replicas >=
\* replication_factor; total_replicas is 0 and writes are disabled at the
\* start, and only an iteration of the health monitor changes either.
C34_GateFollowsReplicas ==
    /\ \A n \in Nodes : /\ cluster_state[n].total_replicas = 0
                         /\ ~cluster_state[n].is_write_enabled
    /\ []GateMatchesReplicas
    /\ [][\A n \in Nodes :
            (\/ cluster_state'[n].total_replicas
                   # cluster_state[n].total_replicas
             \/ cluster_state'[n].is_write_enabled
                   # cluster_state[n].is_write_enabled)
            => cluster_state'[n] = monitor_cluster_health(cluster_state[n], now)
       ]_vars

\* the monitor has opened the gate
C34_Witness ==
    /\ cluster_state[Self].is_write_enabled
    /\ cluster_state[Self].total_replicas >= ReplicationFactor
    /\ ActiveCount(cluster_state[Self]) >= ReplicationFactor

\* ------------------------------------------------------------------ C35
\* C35: whenever the leader a node records is the node itself, the node's
\* state is Leader.
C35_OwnLeaderIsLeader ==
    \A n \in Nodes : raft[n].leader = Some(n) => raft[n].state = "Leader"

\* ---- the MessageHandler's operations and tasks ----

NetPeers == Nodes \ {Self}

NetOp(op, n) == [op |-> op, node |-> n]

\* add_connection(node): Ok and nothing else when the table has an entry
\* for the node; otherwise a new channel, an entry that holds its sender,
\* and a handle_connection task that holds its receiver
NetAddConnection(n) ==
    /\ n \in DOMAIN net.connections \/ net.made < MaxConnections
    /\ net' = IF n \in DOMAIN net.connections
              THEN [net EXCEPT !.last = NetOp("add_connection", n)]
              ELSE [net EXCEPT
                      !.connections = MapInsert(@, n,
                          [conn |-> net.made + 1, status |-> "Connecting",
                           idle |-> 0]),
                      !.handlers = MapInsert(@, net.made + 1,
                          [node |-> n, pc |-> "start"]),
                      !.made = @ + 1,
                      !.last = NetOp("add_connection", n)]
    /\ UNCHANGED <<node_vars, now, next_uuid, versioned, os, mock, dist,
                   sched>>

\* remove_connection(node_id)
NetRemoveConnection(n) ==
    /\ net' = [net EXCEPT !.connections = MapRemove(@, n),
                          !.last = NetOp("remove_connection", n)]
    /\ UNCHANGED <<node_vars, now, next_uuid, versioned, os, mock, dist,
                   sched>>

\* handle_incoming_message(from_node, ..): the entry of the node, if there
\* is one, has been active now
NetIncomingMessage(n) ==
    /\ net' = [net EXCEPT
                 !.connections = IF n \in DOMAIN @
                                 THEN [@ EXCEPT ![n].idle = 0] ELSE @,
                 !.last = NetOp("handle_incoming_message", n)]
    /\ UNCHANGED <<node_vars, now, next_uuid, versioned, os, mock, dist,
                   sched>>

\* handle_connection, up to its loop: the entry found under the node id is
\* marked Connected
NetHandleConnectionStart(c) ==
    /\ c \in DOMAIN net.handlers
    /\ net.handlers[c].pc = "start"
    /\ LET n == net.handlers[c].node
       IN  net' = [net EXCEPT
                     !.connections = IF n \in DOMAIN @
                                     THEN [@ EXCEPT ![n].status = "Connected"]
                                     ELSE @,
                     !.handlers[c].pc = "recv",
                     !.last = NetOp("handle_connection", n)]
    /\ UNCHANGED <<node_vars, now, next_uuid, versioned, os, mock, dist,
                   sched>>

\* handle_connection, from the end of its loop: send_network_message
\* answers Ok always, so the loop ends when recv() returns None, and the
\* clean-up removes the entry found under the node id
NetHandleConnectionEnd(c) ==
    /\ c \in DOMAIN net.handlers
    /\ net.handlers[c].pc = "recv"
    /\ sender_dropped(net, c)
    /\ LET n == net.handlers[c].node
       IN  net' = [net EXCEPT !.connections = MapRemove(@, n),
                              !.handlers[c].pc = "done",
                              !.last = NetOp("handle_connection", n)]
    /\ UNCHANGED <<node_vars, now, next_uuid, versioned, os, mock, dist,
                   sched>>

\* maintain_connections, under the read lock: the ids of the entries idle
\* for longer than consensus_timeout
NetMaintainRead ==
    /\ net.sweep = None
    /\ LET to_remove == {n \in DOMAIN net.connections :
                            net.connections[n].idle > ConsensusTimeout}
       IN  net' = [net EXCEPT
                     !.sweep = IF to_remove = {} THEN None
                               ELSE Some(to_remove),
                     !.last = NetOp("maintain_connections", "none")]
    /\ UNCHANGED <<node_vars, now, next_uuid, versioned, os, mock, dist,
                   sched>>

\* maintain_connections, under the write lock it takes next: the entries
\* found under the ids collected are removed
NetMaintainRemove ==
    /\ net.sweep # None
    /\ net' = [net EXCEPT
                 !.connections = [x \in (DOMAIN @) \ net.sweep[1] |-> @[x]],
                 !.sweep = None,
                 !.last = NetOp("maintain_connections", "none")]
    /\ UNCHANGED <<node_vars, now, next_uuid, versioned, os, mock, dist,
                   sched>>

\* a heartbeat interval passes without activity
NetTick ==
    /\ \E n \in DOMAIN net.connections :
            net.connections[n].idle <= ConsensusTimeout
    /\ net' = [net EXCEPT
                 !.connections = [n \in DOMAIN @ |->
                     [@[n] EXCEPT !.idle =
                         IF @ > ConsensusTimeout THEN @ ELSE @ + 1]],
                 !.last = NetOp("tick", "none")]
    /\ UNCHANGED <<node_vars, now, next_uuid, versioned, os, mock, dist,
                   sched>>

NextNet ==
    \/ \E n \in NetPeers : NetAddConnection(n)
    \/ \E n \in NetPeers : NetRemoveConnection(n)
    \/ \E n \in NetPeers : NetIncomingMessage(n)
    \/ \E c \in 1..MaxConnections : NetHandleConnectionStart(c)
    \/ \E c \in 1..MaxConnections : NetHandleConnectionEnd(c)
    \/ NetMaintainRead
    \/ NetMaintainRemove
    \/ NetTick

SpecNet == Init /\ [][NextNet]_vars

\* C36: a connection in the table leaves it, or gives way to another, only
\* in a step of remove_connection for its node, or when it was marked
\* Failed, or when it had been idle for longer than consensus_timeout
C36_ConnectionStays ==
    [][\A n \in NetPeers :
          (/\ n \in DOMAIN net.connections
           /\ \/ n \notin DOMAIN net'.connections
              \/ net'.connections[n].conn # net.connections[n].conn)
          => \/ net'.last = NetOp("remove_connection", n)
             \/ net.connections[n].status = "Failed"
             \/ net.connections[n].idle > ConsensusTimeout]_vars

\* C37: a replicate_data call that answers false leaves the storage of
\* every node of the mock cluster as it was
C37_RefusedCallStoresNothing ==
    [][(mock'.last.calls # mock.last.calls /\ ~mock'.last.res)
          => \A n \in MockNodes :
                mock'.nodes[n].storage = mock.nodes[n].storage]_vars

\* ---- the Scheduler's operations ----

\* Task::new and add_task: TASK_COUNTER gives the id, the state is Ready;
\* tasks made and not added take the ids in between.  run() borrows the
\* scheduler for good, so tasks are added before it only
SchedAddTask(id) ==
    /\ ~sched.running
    /\ Len(sched.tasks) < MaxTasks
    /\ id > sched.TASK_COUNTER
    /\ sched' = [sched EXCEPT
                   !.tasks = Append(@, [id |-> id, state |-> "Ready",
                                        calls |-> 0]),
                   !.TASK_COUNTER = id]
    /\ UNCHANGED <<node_vars, now, next_uuid, versioned, os, mock, dist, net>>

\* the for loop of run: k more tasks to look at, from index cur (counted
\* from 0); the index of the first Ready task found, or none
RECURSIVE find_ready(_, _, _)
find_ready(ts, cur, k) ==
    LET c == IF cur >= Len(ts) THEN 0 ELSE cur
    IN  IF k = 0 THEN [found |-> FALSE, current_task |-> cur]
        ELSE IF ts[c + 1].state = "Ready"
             THEN [found |-> TRUE, current_task |-> c]
             ELSE find_ready(ts, c + 1, k - 1)

\* run, one turn of its loop up to the call of the task's function: halt
\* without tasks; otherwise the task found becomes Running and its
\* function is called, or the CPU is yielded when none is Ready
SchedRunSelect ==
    /\ ~sched.halted
    /\ \A i \in DOMAIN sched.tasks : sched.tasks[i].state # "Running"
    /\ LET r == find_ready(sched.tasks, sched.current_task, Len(sched.tasks))
       IN  sched' =
             IF sched.tasks = <<>>
             THEN [sched EXCEPT !.running = TRUE, !.halted = TRUE]
             ELSE IF r.found
             THEN [sched EXCEPT
                     !.running = TRUE,
                     !.current_task = r.current_task,
                     !.tasks[r.current_task + 1].state = "Running",
                     !.tasks[r.current_task + 1].calls =
                         IF @ < MaxTaskCalls THEN @ + 1 ELSE @]
             ELSE [sched EXCEPT !.running = TRUE,
                                !.current_task = r.current_task]
    /\ UNCHANGED <<node_vars, now, next_uuid, versioned, os, mock, dist, net>>

\* run, from the return of the task's function: the task is Ready again
\* and the for loop is left by its break, current_task as it is
SchedRunReturn ==
    /\ sched.running
    /\ sched.current_task + 1 \in DOMAIN sched.tasks
    /\ sched.tasks[sched.current_task + 1].state = "Running"
    /\ sched' = [sched EXCEPT !.tasks[sched.current_task + 1].state = "Ready"]
    /\ UNCHANGED <<node_vars, now, next_uuid, versioned, os, mock, dist, net>>

NextSched ==
    \/ \E id \in 1..MaxTaskId : SchedAddTask(id)
    \/ SchedRunSelect
    \/ SchedRunReturn

\* once run is entered it is the only thread: its loop goes on
SchedFair ==
    /\ WF_vars(sched.running /\ SchedRunSelect)
    /\ WF_vars(SchedRunReturn)

SpecSched == Init /\ [][NextSched]_vars /\ SchedFair

\* C38: while run goes on, every task of the scheduler is selected and
\* run again and again
C38_EveryReadyTaskRuns ==
    \A i \in 1..MaxTasks :
        [](sched.running /\ i \in DOMAIN sched.tasks
            => <>(/\ i \in DOMAIN sched.tasks
                  /\ sched.tasks[i].state = "Running"))

\* the ids of the entries of a list of nodes
NodeIds(an) == {an[i].id : i \in DOMAIN an}

\* no two entries of active_nodes have the same id
UniqueNodeIds ==
    \A n \in Nodes :
        \A i, j \in DOMAIN cluster_state[n].active_nodes :
            cluster_state[n].active_nodes[i].id
                = cluster_state[n].active_nodes[j].id => i = j

\* C39: active_nodes never holds two entries with the same id; a step that
\* lengthens the list adds one entry, at the end, for an id the list did
\* not hold, and a step that changes the entry of an id the list keeps
\* leaves the list as long as it was and the entry Active and seen now
C39_OneEntryPerNode ==
    /\ []UniqueNodeIds
    /\ [][\A n \in Nodes :
            LET old == cluster_state[n].active_nodes
                new == cluster_state'[n].active_nodes
            IN  /\ Len(new) > Len(old)
                    => /\ new = Append(old, new[Len(new)])
                       /\ new[Len(new)].id \notin NodeIds(old)
                       /\ new[Len(new)].status = "Active"
                       /\ new[Len(new)].last_seen = now
                /\ \A i \in DOMAIN old, j \in DOMAIN new :
                      (old[i].id = new[j].id /\ old[i] # new[j])
                        => /\ Len(new) = Len(old)
                           /\ i = j
                           /\ new[j].status = "Active"
                           /\ new[j].last_seen = now]_vars

\* both nodes are known and the one that was pushed first was heard of
\* again after the other: its entry was refreshed where it stood
C39_Witness ==
    \E n \in Nodes :
        /\ Len(cluster_state[n].active_nodes) = 2
        /\ cluster_state[n].active_nodes[1].last_seen
               > cluster_state[n].active_nodes[2].last_seen

====
